---- MODULE Spec2Model ----
(***************************************************************************)
(* A model of stash_renamer (src/stash_renamer.py): the template-driven    *)
(* filename and directory composer, the per-record rename planner and the  *)
(* move executor, driven by run() over (tag, template) sub-runs.           *)
(*                                                                         *)
(* Strings are sequences of atoms.  An atom is one character, written as a *)
(* one-character TLA+ string, except for the named atoms "TAB", "NL",      *)
(* "DEL" (control characters), "DQUOTE", "SQUOTE", "BTICK", "BSLASH" (the  *)
(* quote characters and the backslash), "NBSP" (a whitespace character     *)
(* that is not the space), "EN", "EM" (the en and em dash) and "LONG".     *)
(* "LONG" stands for                                                       *)
(* a run of BlockLen copies of one letter: every string operation of the   *)
(* program treats such a run as it treats a single letter, except len().   *)
(* Paths follow posixpath; IS_WINDOWS only switches the length check on,   *)
(* as in the source.                                                       *)
(***************************************************************************)
EXTENDS Integers, Sequences, FiniteSets, TLC

(***************************************************************************)
(* Characters                                                              *)
(***************************************************************************)
BlockLen == 240

ControlChars == {"TAB", "NL", "DEL"}

\* the characters Windows forbids, without the additional ones of line 89
WindowsForbiddenChars == {"<", ">", ":", "DQUOTE", "/", "BSLASH", "|", "?", "*"}

ForbiddenChars ==
    {"<", ">", ":", "DQUOTE", "/", "BSLASH", "|", "?", "*", "SQUOTE", "BTICK", "#", ","}

WhiteSpace == {" ", "TAB", "NL", "NBSP"}

SepPunct == {"-", "EN", "EM", "_", ":", "|", ","}

NonWordChars ==
    WhiteSpace \cup ControlChars \cup ForbiddenChars \cup
    {"-", "EN", "EM", ".", "$", "[", "]", "(", ")", "{", "}", "!", "&", "+", "="}

IsWord(c) == c \notin NonWordChars

Width(c) == IF c = "LONG" THEN BlockLen ELSE 1

(***************************************************************************)
(* Python str and list primitives                                          *)
(***************************************************************************)
RECURSIVE PyLen(_)
PyLen(s) == IF s = <<>> THEN 0 ELSE Width(Head(s)) + PyLen(Tail(s))

Drop(s, n) == SubSeq(s, n + 1, Len(s))

Take(s, n) == SubSeq(s, 1, n)

\* number of leading atoms of s that lie in set cs
RECURSIVE LeadCount(_, _)
LeadCount(s, cs) ==
    IF s # <<>> /\ Head(s) \in cs THEN 1 + LeadCount(Tail(s), cs) ELSE 0

\* number of trailing atoms of s that lie in set cs
RECURSIVE TrailCount(_, _)
TrailCount(s, cs) ==
    IF s # <<>> /\ s[Len(s)] \in cs THEN 1 + TrailCount(Take(s, Len(s) - 1), cs) ELSE 0

\* str.strip(chars)
StripChars(s, cs) ==
    LET l == LeadCount(s, cs)
        t == Drop(s, l)
    IN  Take(t, Len(t) - TrailCount(t, cs))

\* str.rstrip(chars)
RStripChars(s, cs) == Take(s, Len(s) - TrailCount(s, cs))

\* str.strip()
Strip(s) == StripChars(s, WhiteSpace)

StartsWith(s, p) == Len(p) <= Len(s) /\ Take(s, Len(p)) = p

\* str.find: the least index (1-based) at which sub occurs in s, 0 when none
Find(s, sub) ==
    LET hits == {i \in 1..(Len(s) - Len(sub) + 1) : SubSeq(s, i, i + Len(sub) - 1) = sub}
    IN  IF hits = {} THEN 0 ELSE CHOOSE i \in hits : \A j \in hits : i <= j

\* str.rfind of a single character: the greatest index, 0 when none
RFindChar(s, c) ==
    LET hits == {i \in 1..Len(s) : s[i] = c}
    IN  IF hits = {} THEN 0 ELSE CHOOSE i \in hits : \A j \in hits : j <= i

\* sub in s
Contains(s, sub) == Find(s, sub) # 0

\* the set of the elements of a list
SeqRange(q) == {q[i] : i \in 1..Len(q)}

\* str.replace(old, new) for a non-empty old: leftmost, non-overlapping
RECURSIVE Replace(_, _, _)
Replace(s, old, new) ==
    LET i == Find(s, old)
    IN  IF i = 0 THEN s
        ELSE Take(s, i - 1) \o new \o Replace(Drop(s, i + Len(old) - 1), old, new)

\* the characters of s that are not in cs, in order
RECURSIVE RemoveChars(_, _)
RemoveChars(s, cs) ==
    IF s = <<>> THEN <<>>
    ELSE (IF Head(s) \in cs THEN <<>> ELSE <<Head(s)>>) \o RemoveChars(Tail(s), cs)

\* str.split(sep) for a single-character sep: a non-empty sequence of strings
RECURSIVE Split(_, _)
Split(s, c) ==
    LET hits == {i \in 1..Len(s) : s[i] = c}
    IN  IF hits = {} THEN <<s>>
        ELSE LET i == CHOOSE k \in hits : \A j \in hits : k <= j
             IN  <<Take(s, i - 1)>> \o Split(Drop(s, i), c)

(***************************************************************************)
(* Regular-expression substitutions of the source, each computed as        *)
(* Python's re.sub computes it (leftmost match, greedy, non-overlapping)   *)
(***************************************************************************)
\* re.sub(r'\s{2,}', ' ', s): every maximal run of two or more whitespace
\* characters becomes one space
RECURSIVE CollapseSpaces(_)
CollapseSpaces(s) ==
    IF s = <<>> THEN <<>>
    ELSE LET n == LeadCount(s, WhiteSpace)
         IN  IF n >= 2 THEN <<" ">> \o CollapseSpaces(Drop(s, n))
             ELSE <<Head(s)>> \o CollapseSpaces(Tail(s))

\* makeFilename without line 199: chains of separators are kept
KeepSeparatorChains(s) == s

\* re.sub(r"(?:\s*-\s*){2,}", " - ", s): a match is a maximal run of
\* whitespace and hyphens that holds at least two hyphens
RECURSIVE CollapseSeparators(_)
CollapseSeparators(s) ==
    IF s = <<>> THEN <<>>
    ELSE LET n == LeadCount(s, WhiteSpace \cup {"-"})
             run == Take(s, n)
         IN  IF n = 0 THEN <<Head(s)>> \o CollapseSeparators(Tail(s))
             ELSE IF Len(SelectSeq(run, LAMBDA c : c = "-")) >= 2
                  THEN <<" ", "-", " ">> \o CollapseSeparators(Drop(s, n))
                  ELSE run \o CollapseSeparators(Drop(s, n))

\* re.sub(r"^\s*[-...,]+\s*", "", s)
StripLeadingSeparators(s) ==
    LET t == Drop(s, LeadCount(s, WhiteSpace))
        p == LeadCount(t, SepPunct)
        u == Drop(t, p)
    IN  IF p >= 1 THEN Drop(u, LeadCount(u, WhiteSpace)) ELSE s

\* re.sub(r"\s*[-...,]+\s*$", "", s)
StripTrailingSeparators(s) ==
    LET t == Take(s, Len(s) - TrailCount(s, WhiteSpace))
        p == TrailCount(t, SepPunct)
        u == Take(t, Len(t) - p)
    IN  IF p >= 1 THEN Take(u, Len(u) - TrailCount(u, WhiteSpace)) ELSE s

\* re.sub(r"\[\W*\]", "", s) and its two siblings: an opening bracket, a
\* greedy run of non-word characters, the last closing bracket of that run
RECURSIVE RemoveEmptyGroups(_, _, _)
RemoveEmptyGroups(s, open, close) ==
    IF s = <<>> THEN <<>>
    ELSE IF Head(s) = open
         THEN LET run == Take(Tail(s), LeadCount(Tail(s), NonWordChars))
                  k == RFindChar(run, close)
              IN  IF k > 0 THEN RemoveEmptyGroups(Drop(Tail(s), k), open, close)
                  ELSE <<open>> \o RemoveEmptyGroups(Tail(s), open, close)
         ELSE <<Head(s)>> \o RemoveEmptyGroups(Tail(s), open, close)

\* re.sub(r"[\\/]+", "/", s)
RECURSIVE NormalizeSlashes(_)
NormalizeSlashes(s) ==
    IF s = <<>> THEN <<>>
    ELSE LET n == LeadCount(s, {"/", "BSLASH"})
         IN  IF n >= 1 THEN <<"/">> \o NormalizeSlashes(Drop(s, n))
             ELSE <<Head(s)>> \o NormalizeSlashes(Tail(s))

(***************************************************************************)
(* Sanitizer                                                               *)
(***************************************************************************)
\* sanitize_filename with lines 92 and 95 exchanged: the ends are stripped
\* before the whitespace runs are collapsed
StripBeforeCollapse(name) ==
    IF name = <<>> THEN <<>>
    ELSE CollapseSpaces(StripChars(RemoveChars(RemoveChars(name, ControlChars), ForbiddenChars),
                                   {".", " "}))

sanitize_filename(name) ==
    IF name = <<>> THEN <<>>
    ELSE LET a == RemoveChars(name, ControlChars)
             b == RemoveChars(a, ForbiddenChars)
             c == CollapseSpaces(b)
         IN  StripChars(c, {".", " "})

sanitize_path_component(seg) == sanitize_filename(seg)

(***************************************************************************)
(* Filename composer                                                       *)
(***************************************************************************)
\* the tokens dict of makeFilename, in its insertion order: <<token, key>>
TokenTable ==
    << <<<<"$","i","d">>, "id">>,
       <<<<"$","t","i","t","l","e">>, "title">>,
       <<<<"$","c","o","d","e">>, "code">>,
       <<<<"$","d","e","t","a","i","l","s">>, "details">>,
       <<<<"$","d","i","r","e","c","t","o","r">>, "director">>,
       <<<<"$","u","r","l","s">>, "urls">>,
       <<<<"$","d","a","t","e">>, "date">>,
       <<<<"$","r","a","t","i","n","g","1","0","0">>, "rating100">>,
       <<<<"$","o","r","g","a","n","i","z","e","d">>, "organized">>,
       <<<<"$","o","_","c","o","u","n","t","e","r">>, "o_counter">>,
       <<<<"$","i","n","t","e","r","a","c","t","i","v","e">>, "interactive">>,
       <<<<"$","i","n","t","e","r","a","c","t","i","v","e","_","s","p","e","e","d">>, "interactive_speed">>,
       <<<<"$","c","r","e","a","t","e","d","_","a","t">>, "created_at">>,
       <<<<"$","u","p","d","a","t","e","d","_","a","t">>, "updated_at">>,
       <<<<"$","l","a","s","t","_","p","l","a","y","e","d","_","a","t">>, "last_played_at">>,
       <<<<"$","r","e","s","u","m","e","_","t","i","m","e">>, "resume_time">>,
       <<<<"$","p","l","a","y","_","d","u","r","a","t","i","o","n">>, "play_duration">>,
       <<<<"$","p","l","a","y","_","c","o","u","n","t">>, "play_count">>,
       <<<<"$","t","a","g","s">>, "tags">>,
       <<<<"$","g","r","o","u","p","s">>, "groups">>,
       <<<<"$","s","c","e","n","e","_","m","a","r","k","e","r","s","_","c","o","u","n","t">>, "scene_markers_count">>,
       <<<<"$","p","e","r","f","o","r","m","e","r","s">>, "performers">>,
       <<<<"$","p","e","r","f","o","r","m","e","r">>, "performer">>,
       <<<<"$","s","t","u","d","i","o">>, "studio">>,
       <<<<"$","h","e","i","g","h","t">>, "height">> >>

TokenKeys == {TokenTable[i][2] : i \in 1..Len(TokenTable)}

\* (scene_info.get(key) or "").strip()
TokenValue(scene_info, key) ==
    IF key \in DOMAIN scene_info THEN Strip(scene_info[key]) ELSE <<>>

\* for token, value in tokens.items(): s = s.replace(token, value)
\* The loop from entry i on: replacing a token that does not occur leaves s
\* as it is, so the loop advances to the first entry j >= i whose token
\* occurs in s, replaces it, and goes on from entry j + 1.
RECURSIVE ReplaceTokens(_, _, _)
ReplaceTokens(s, scene_info, i) ==
    LET hits == {j \in i..Len(TokenTable) : Contains(s, TokenTable[j][1])}
    IN  IF hits = {} THEN s
        ELSE LET j == CHOOSE k \in hits : \A m \in hits : k <= m
                 r == Replace(s, TokenTable[j][1], TokenValue(scene_info, TokenTable[j][2]))
             IN  IF r = <<>> THEN r ELSE ReplaceTokens(r, scene_info, j + 1)

makeFilename(scene_info, query) ==
    LET s0 == Strip(query)
        s1 == ReplaceTokens(s0, scene_info, 1)
        s2 == CollapseSeparators(s1)
        s3 == StripLeadingSeparators(s2)
        s4 == StripTrailingSeparators(s3)
        s5 == RemoveEmptyGroups(s4, "[", "]")
        s6 == RemoveEmptyGroups(s5, "(", ")")
        s7 == RemoveEmptyGroups(s6, "{", "}")
    IN  Strip(CollapseSpaces(s7))

(***************************************************************************)
(* posixpath                                                               *)
(***************************************************************************)
Sep == <<"/">>

\* os.path.dirname
PathDirname(p) ==
    LET head == Take(p, RFindChar(p, "/"))
    IN  IF head # <<>> /\ RemoveChars(head, {"/"}) # <<>>
        THEN RStripChars(head, {"/"}) ELSE head

\* os.path.basename
PathBasename(p) == Drop(p, RFindChar(p, "/"))

\* os.path.splitext(name)[1] for a name without separator
PathExtension(name) ==
    LET dot == RFindChar(name, ".")
    IN  IF dot > 0 /\ \E j \in 1..(dot - 1) : name[j] # "."
        THEN Drop(name, dot - 1) ELSE <<>>

\* os.path.join(a, b)
PathJoin(a, b) ==
    IF StartsWith(b, Sep) THEN b
    ELSE IF a = <<>> \/ a[Len(a)] = "/" THEN a \o b
    ELSE a \o Sep \o b

\* os.path.join(*stack) for a non-empty stack
RECURSIVE PathJoinAll(_)
PathJoinAll(stack) ==
    IF Len(stack) = 1 THEN stack[1]
    ELSE PathJoin(PathJoinAll(Take(stack, Len(stack) - 1)), stack[Len(stack)])

(***************************************************************************)
(* Directory composer                                                      *)
(***************************************************************************)
UpToken == <<"$", "u", "p">>

DotDot == <<".", ".">>

\* [p.strip() for p in segs]
StripEach(segs) == [i \in 1..Len(segs) |-> Strip(segs[i])]

\* parts: the template with its tokens replaced, $up turned into "..", the
\* separators normalized, split at "/"
TemplateParts(scene_info, path_template) ==
    StripEach(Split(Strip(NormalizeSlashes(Replace(makeFilename(scene_info, path_template),
                                                   UpToken, DotDot))),
                    "/"))

\* the loop of the absolute branch: the stack after the segments of parts
RECURSIVE AbsoluteStack(_, _)
AbsoluteStack(parts, stack) ==
    IF parts = <<>> THEN stack
    ELSE IF Head(parts) = <<>> \/ Head(parts) = <<".">>
         THEN AbsoluteStack(Tail(parts), stack)
         ELSE IF Head(parts) = DotDot
              THEN AbsoluteStack(Tail(parts),
                                 IF stack # <<>> THEN Take(stack, Len(stack) - 1) ELSE stack)
              ELSE AbsoluteStack(Tail(parts),
                                 Append(stack, sanitize_path_component(Head(parts))))

\* os.sep + os.path.join(*stack) if stack else os.sep
AbsoluteJoin(stack) == IF stack # <<>> THEN Sep \o PathJoinAll(stack) ELSE Sep

\* a or b, for strings
Or(a, b) == IF a # <<>> THEN a ELSE b

\* a ".." step that leaves base where it is
StayInPlace(base) == base

\* a ".." step without the "or base" of line 149: the parent of the root is
\* the empty path
AscendPastRoot(base) == PathDirname(RStripChars(base, {"/"}))

\* the ".." step of the relative branch:
\*   parent = os.path.dirname(base.rstrip(os.sep)) or base
\*   base = parent if parent else base
Ascend(base) == Or(Or(PathDirname(RStripChars(base, {"/"})), base), base)

\* the loop of the relative branch: base after the segments of parts
RECURSIVE RelativeBase(_, _)
RelativeBase(parts, base) ==
    IF parts = <<>> THEN base
    ELSE IF Head(parts) = <<>> \/ Head(parts) = <<".">>
         THEN RelativeBase(Tail(parts), base)
         ELSE IF Head(parts) = DotDot
              THEN RelativeBase(Tail(parts), Ascend(base))
              ELSE RelativeBase(Tail(parts),
                                PathJoin(base, sanitize_path_component(Head(parts))))

\* the two branches of _build_target_directory, from the segments on
DirectoryFromParts(parts, current_directory, is_absolute) ==
    IF is_absolute
    THEN AbsoluteJoin(AbsoluteStack(parts, <<>>))
    ELSE RelativeBase(parts, current_directory)

build_target_directory(current_directory, scene_info, path_template, is_absolute) ==
    DirectoryFromParts(TemplateParts(scene_info, path_template), current_directory, is_absolute)

(***************************************************************************)
(* Bounds of the model                                                     *)
(***************************************************************************)
\* run() is called at most MaxRuns times in one process
MaxRuns == 2

(***************************************************************************)
(* Program constants                                                       *)
(***************************************************************************)
BATCH_SIZE == 100

\* the path ceiling tested by edit_run on IS_WINDOWS
PathLimit == 240

\* FILTERS = {}
NoFilters == <<>>

\* the value of a missing file identifier (None)
NoId == "NoId"

NoneMarker == <<"N", "o", "n", "e">>

(***************************************************************************)
(* State                                                                   *)
(***************************************************************************)
VARIABLES
    IS_WINDOWS,      \* os.name == "nt", fixed for the process
    catalog,         \* the remote service's scenes, in the order it lists them
    remoteTags,      \* the remote service's tags: a sequence of [id, name]
    files,           \* the file system: the paths that are files
    dirs,            \* the file system: the paths that are directories
    cfg,             \* the module globals set by run(): DRY_RUN, USING_LOG, ...
    pc,              \* "idle" | "run" (in run's loop) | "scenes" (in edit_run's loop)
    runs,            \* number of run() calls started
    opts,            \* the options of the current (or last) run() call
    pairs,           \* the sub-runs run() has still to make: <<[tag_names, template]>>
    tpl,             \* edit_run's template argument
    batch,           \* edit_run's scenes list
    idx,             \* position of edit_run's loop in batch
    operations,      \* edit_run's operations list
    all_operations,  \* run's all_operations list
    dryrunTxt,       \* renamer_dryrun.txt, a sequence of lines
    renameLog,       \* rename_log.txt
    failTxt,         \* renamer_fail.txt
    dupTxt,          \* renamer_duplicate.txt
    moveLog,         \* the moveFiles mutations sent since the current run() began
    queryLog,        \* the findScenes queries sent since the current run() or call began
    call,            \* a direct call of a function of the module, and its arguments
    result           \* what that call returned

vars == <<IS_WINDOWS, catalog, remoteTags, files, dirs, cfg, pc, runs, opts, pairs, tpl,
          batch, idx, operations, all_operations, dryrunTxt, renameLog, failTxt, dupTxt,
          moveLog, queryLog, call, result>>

\* the state of a process that runs the renamer
runVars == <<IS_WINDOWS, catalog, remoteTags, files, dirs, cfg, pc, runs, opts, pairs, tpl,
             batch, idx, operations, all_operations, dryrunTxt, renameLog, failTxt, dupTxt,
             moveLog, queryLog>>

\* the same without the log of the scene queries
quietVars == <<IS_WINDOWS, catalog, remoteTags, files, dirs, cfg, pc, runs, opts, pairs, tpl,
               batch, idx, operations, all_operations, dryrunTxt, renameLog, failTxt, dupTxt,
               moveLog>>

\* the state of a direct call of a function
callVars == <<call, result>>

(***************************************************************************)
(* The file system                                                         *)
(***************************************************************************)
\* a path in normal form: separators collapsed, no trailing separator
RECURSIVE JoinSegments(_)
JoinSegments(segs) ==
    IF segs = <<>> THEN <<>> ELSE Sep \o Head(segs) \o JoinSegments(Tail(segs))

PathSegments(p) == SelectSeq(Split(p, "/"), LAMBDA seg : seg # <<>>)

NormPath(p) ==
    LET segs == PathSegments(p)
    IN  IF segs = <<>> THEN Sep ELSE JoinSegments(segs)

\* a directory and the directories above it
Ancestors(d) ==
    LET segs == PathSegments(d)
    IN  {NormPath(JoinSegments(Take(segs, k))) : k \in 0..Len(segs)}

\* os.path.exists(p) in a file system with files fs and directories ds
PathExists(p, fs, ds) == NormPath(p) \in (fs \cup ds)

\* os.makedirs(d, exist_ok=True) raises when a file stands on the way
MakedirsRaises(d, fs) == Ancestors(d) \cap fs # {}

(***************************************************************************)
(* Remote service: tags and scenes                                         *)
(***************************************************************************)
SceneKeys == DOMAIN catalog

\* the order in which the service lists scenes
SceneOrder == [i \in 1..Cardinality(SceneKeys) |-> i]

\* the service's name comparison for a findTags modifier: EQUALS accepts the
\* name itself, MATCHES every name that holds the value
TagNameAccepted(tagName, value, modifier) ==
    IF modifier = "EQUALS" THEN tagName = value ELSE Contains(tagName, value)

\* the findTags query: the first per_page tags, in the service's order, whose
\* name the modifier accepts
FindTags(value, modifier, per_page) ==
    LET hits == SelectSeq(remoteTags, LAMBDA t : TagNameAccepted(t.name, value, modifier))
    IN  Take(hits, IF Len(hits) < per_page THEN Len(hits) ELSE per_page)

\* one pass of find_tag_ids_by_names's loop: the id found for name, NoId when
\* the name stays unresolved
ResolveTag(name) ==
    LET tags == FindTags(name, "EQUALS", 1)
        exact == SelectSeq(tags, LAMBDA t : t.name = name)
        tags2 == FindTags(name, "MATCHES", 5)
        exact2 == SelectSeq(tags2, LAMBDA t : t.name = name)
    IN  IF tags # <<>>
        THEN (IF exact # <<>> THEN exact[1].id ELSE tags[1].id)
        ELSE (IF exact2 # <<>> THEN exact2[1].id ELSE NoId)

\* find_tag_ids_by_names: name -> id for the names that could be resolved
find_tag_ids_by_names(names) ==
    LET resolved == {names[i] : i \in {j \in 1..Len(names) : ResolveTag(names[j]) # NoId}}
    IN  [name \in resolved |-> ResolveTag(name)]

\* build_scene_filter: the tag ids to include, {} for no tag constraint
build_scene_filter(tag_ids) == tag_ids

\* the findScenes query: the scenes matching the filter, in the service's order
FindScenes(scene_filter) ==
    LET tagNames == {remoteTags[i].name : i \in {j \in 1..Len(remoteTags) : remoteTags[j].id \in scene_filter}}
        match(k) == scene_filter = {} \/ SeqRange(catalog[k].tags) \cap tagNames # {}
    IN  SelectSeq(SceneOrder, LAMBDA k : k \in SceneKeys /\ match(k))

\* get_total_scenes
get_total_scenes(scene_filter) == Len(FindScenes(scene_filter))

\* get_scenes_page: page number page (from 1) of BATCH_SIZE scenes
get_scenes_page(page, scene_filter) ==
    LET all == FindScenes(scene_filter)
        lo == (page - 1) * BATCH_SIZE + 1
        hi == IF page * BATCH_SIZE < Len(all) THEN page * BATCH_SIZE ELSE Len(all)
    IN  [i \in 1..(hi - lo + 1) |-> catalog[all[lo + i - 1]]]

\* path_like_match
path_like_match(path, pattern) ==
    IF pattern = <<>> THEN TRUE ELSE Contains(path, RemoveChars(pattern, {"%"}))

\* path_excluded
path_excluded(path, pattern) ==
    IF pattern = <<>> THEN FALSE ELSE Contains(path, RemoveChars(pattern, {"%"}))

\* bool(v) of a JSON boolean or null: "true", "false", "null"
Truthy(v) == v = "true"

\* str.upper on the gender names the service and the options use
Upper(g) ==
    CASE g = "female" -> "FEMALE"
      [] g = "male" -> "MALE"
      [] g = "unknown" -> "UNKNOWN"
      [] g = "bogus" -> "BOGUS"
      [] OTHER -> g

\* _matches_gender
MatchesGender(p, filter_perf_genders) ==
    IF Upper(p.gender) = "" THEN "UNKNOWN" \in filter_perf_genders
    ELSE Upper(p.gender) \in filter_perf_genders

\* the stripped, non-empty names of a collection of names
StrippedNames(names) == {Strip(n) : n \in names} \ {<<>>}

\* the test scene_passes_filters makes for one key of FILTERS: FALSE when the
\* function returns False at that test
FilterAccepts(scene, filters, key) ==
    CASE key = "organized" -> Truthy(scene.organized) = filters[key]
      [] key = "interactive" -> Truthy(scene.interactive) = filters[key]
      [] key = "min_scene_markers" -> Len(scene.scene_markers) >= filters[key]
      [] key = "studio_names" ->
            filters[key] # {} => Strip(scene.studio) \in filters[key]
      [] key = "group_names" ->
            filters[key] # {} => StrippedNames(SeqRange(scene.groups)) \cap filters[key] # {}
      [] key = "tag_names" ->
            filters[key] # {} => StrippedNames(SeqRange(scene.tags)) \cap filters[key] # {}
      [] key = "performer_genders" ->
            filters[key] # {} =>
                \E i \in 1..Len(scene.performers) : MatchesGender(scene.performers[i], filters[key])

\* a filter engine in which one accepting test is enough
PassesAnyFilter(scene, filters) ==
    DOMAIN filters = {} \/ \E key \in DOMAIN filters : FilterAccepts(scene, filters, key)

\* scene_passes_filters for a FILTERS dict: every test of a configured key
\* has to let the scene through
PassesFilters(scene, filters) ==
    \A key \in DOMAIN filters : FilterAccepts(scene, filters, key)

\* scene_passes_filters under the FILTERS global
scene_passes_filters(scene) == PassesFilters(scene, cfg.FILTERS)

\* the scene as iterate_scenes yields it: path is the first file's path
WithPath(scene) == [scene EXCEPT !.path = scene.files[1].path]

KeepScene(scene, path_like, exclude_path_like) ==
    /\ scene.files # <<>>
    /\ path_like_match(scene.files[1].path, path_like)
    /\ ~path_excluded(scene.files[1].path, exclude_path_like)
    /\ scene_passes_filters(WithPath(scene))

\* a division that drops the last, partial page
FloorDiv(a, b) == a \div b

\* math.ceil(a / b)
CeilDiv(a, b) == (a + b - 1) \div b

\* iterate_scenes: pages 1..ceil(total / BATCH_SIZE), filtered, in page order
RECURSIVE IteratePages(_, _, _, _, _)
IteratePages(page, pages, scene_filter, path_like, exclude_path_like) ==
    IF page > pages THEN <<>>
    ELSE LET scenes == get_scenes_page(page, scene_filter)
             kept == SelectSeq(scenes, LAMBDA sc : KeepScene(sc, path_like, exclude_path_like))
         IN  [i \in 1..Len(kept) |-> WithPath(kept[i])]
             \o IteratePages(page + 1, pages, scene_filter, path_like, exclude_path_like)

iterate_scenes(scene_filter, path_like, exclude_path_like) ==
    IteratePages(1, CeilDiv(get_total_scenes(scene_filter), BATCH_SIZE),
                 scene_filter, path_like, exclude_path_like)

(***************************************************************************)
(* Token resolver                                                          *)
(***************************************************************************)
\* dict.get(key) with a default: a key the dict lacks and a key whose value
\* is null are the same to the source, and the model writes both as a
\* missing key (a JSON boolean may also be the string "null")
Get(d, key, default) == IF key \in DOMAIN d THEN d[key] ELSE default

Digits == <<"0", "1", "2", "3", "4", "5", "6", "7", "8", "9">>

\* str(n) for an int n >= 0
RECURSIVE DecimalString(_)
DecimalString(n) ==
    IF n < 10 THEN <<Digits[n + 1]>>
    ELSE DecimalString(n \div 10) \o <<Digits[(n % 10) + 1]>>

\* str(scene.get(key) or "") if scene.get(key) is not None else ""
NumberToken(scene, key) ==
    IF key \notin DOMAIN scene THEN <<>>
    ELSE IF scene[key] = 0 THEN <<>>
    ELSE DecimalString(scene[key])

\* "true" if scene.get(key) else "false" if scene.get(key) is not None else ""
BoolToken(scene, key) ==
    CASE Get(scene, key, "null") = "true" -> <<"t", "r", "u", "e">>
      [] Get(scene, key, "null") = "false" -> <<"f", "a", "l", "s", "e">>
      [] OTHER -> <<>>

\* " ".join(names)
RECURSIVE JoinSpace(_)
JoinSpace(names) ==
    IF names = <<>> THEN <<>>
    ELSE IF Len(names) = 1 THEN names[1]
    ELSE names[1] \o <<" ">> \o JoinSpace(Tail(names))

\* " ".join of the stripped names that are not empty
JoinStripped(names) ==
    JoinSpace(SelectSeq([i \in 1..Len(names) |-> Strip(names[i])], LAMBDA n : n # <<>>))

\* the performer passes the PERFORMER_GENDERS test of lines 553-558; {} is
\* PERFORMER_GENDERS = None
GenderSelected(p, performer_genders) ==
    \/ performer_genders = {}
    \/ Upper(p.gender) \in performer_genders
    \/ Upper(p.gender) = "" /\ "UNKNOWN" \in performer_genders

\* performer_name: the names of the selected performers, joined
PerformerName(performers, performer_genders) ==
    LET chosen == SelectSeq(performers, LAMBDA p : GenderSelected(p, performer_genders))
        names == [i \in 1..Len(chosen) |-> chosen[i].name]
    IN  Strip(JoinSpace(SelectSeq(names, LAMBDA n : n # <<>>)))

NumberKeys ==
    {"rating100", "o_counter", "interactive_speed", "resume_time", "play_duration",
     "play_count"}

BoolKeys == {"organized", "interactive"}

\* the scene_info dict edit_run builds for a scene under PERFORMER_GENDERS
SceneInfoUnder(scene, performer_genders) ==
    [k \in TokenKeys |->
        CASE k \in NumberKeys -> NumberToken(scene, k)
          [] k \in BoolKeys -> BoolToken(scene, k)
          [] k = "tags" -> JoinStripped(Get(scene, "tags", <<>>))
          [] k = "groups" -> JoinStripped(Get(scene, "groups", <<>>))
          [] k = "urls" -> JoinSpace(Get(scene, "urls", <<>>))
          [] k = "scene_markers_count" -> DecimalString(Len(Get(scene, "scene_markers", <<>>)))
          [] k \in {"performers", "performer"} ->
                PerformerName(Get(scene, "performers", <<>>), performer_genders)
          [] k = "height" -> <<>>
          [] OTHER -> Get(scene, k, <<>>)]

\* the scene_info dict under the PERFORMER_GENDERS global
SceneInfo(scene) == SceneInfoUnder(scene, cfg.PERFORMER_GENDERS)

(***************************************************************************)
(* Rename planner: edit_run's loop body up to the executor, as a function  *)
(* of the scene, the template, the globals and the file system.            *)
(***************************************************************************)
ReducedDateTitle == <<"$", "d", "a", "t", "e", " ", "-", " ", "$", "t", "i", "t", "l", "e">>

ReducedTitle == <<"$", "t", "i", "t", "l", "e">>

\* the fallback template chosen when the path is too long
ReducedTemplate(scene_info) ==
    IF scene_info["date"] # <<>> THEN ReducedDateTitle ELSE ReducedTitle

\* is_windows and len(new_path) > 240
PathTooLong(p, is_windows) == is_windows /\ PyLen(p) > PathLimit

\* a faulty variant of ReducedFits that lets every reduced path through;
\* C7's property is tested against it
ReducedAlwaysFits(p) == TRUE

\* len(new_path) <= 240 after the reduction
ReducedFits(p) == PyLen(p) <= PathLimit

\* a faulty variant of AlreadyGood that never skips; C4's property is tested
\* against it
NeverAlreadyGood(new_path, current_path) == FALSE

\* new_path == current_path: "File already good"
AlreadyGood(new_path, current_path) == new_path = current_path

\* a faulty variant of ShouldCreate that creates the directory in dry-run mode
\* too; C3's property is tested against it
ShouldCreateInDryRun(exists, dry_run) == ~exists

\* os.makedirs runs: not os.path.exists(final_directory) and not DRY_RUN
ShouldCreate(exists, dry_run) == ~exists /\ ~dry_run

\* the directory block once the directory is composed: [dir, created],
\* created = os.makedirs ran; an exception falls back to current_directory
CreateTarget(built, current_directory, c, fs, ds) ==
    IF ~ShouldCreate(PathExists(built, fs, ds), c.DRY_RUN)
    THEN [dir |-> built, created |-> FALSE]
    ELSE IF MakedirsRaises(built, fs)
         THEN [dir |-> current_directory, created |-> FALSE]
         ELSE [dir |-> built, created |-> TRUE]

\* the target directory block
TargetDirectory(scene_info, current_directory, c, fs, ds) ==
    IF c.PATH_TEMPLATE = <<>>
    THEN [dir |-> current_directory, created |-> FALSE]
    ELSE CreateTarget(build_target_directory(current_directory, scene_info,
                                             c.PATH_TEMPLATE, c.PATH_IS_ABSOLUTE),
                      current_directory, c, fs, ds)

\* The locals of one pass of edit_run's loop, as a record that grows as the
\* body goes on.  Each block of the body is computed whether or not the pass
\* gets that far; BranchTaken says how far it gets.
\*
\* the scene's path and its parts, and scene_info
LoopLocals(scene, template, c, is_windows, fs, ds) ==
    [template |-> template, c |-> c, is_windows |-> is_windows, fs |-> fs, ds |-> ds,
     current_path |-> scene.path,
     current_directory |-> PathDirname(scene.path),
     current_filename |-> PathBasename(scene.path),
     file_extension |-> PathExtension(PathBasename(scene.path)),
     grouped |-> Get(scene, "groups", <<>>) # <<>>,
     scene_info |-> SceneInfoUnder(scene, c.PERFORMER_GENDERS)]

\* new_filename_core = makeFilename(scene_info, template)
Composed(l) == [composed |-> makeFilename(l.scene_info, l.template)] @@ l

\* new_filename_core = sanitize_filename(new_filename_core)
Sanitized(l) == [core |-> sanitize_filename(l.composed)] @@ l

\* final_directory, and whether os.makedirs ran
Targeted(l) ==
    [target |-> TargetDirectory(l.scene_info, l.current_directory, l.c, l.fs, l.ds)] @@ l

\* new_filename and new_path before the length check
Joined(l) ==
    [full_name |-> l.core \o l.file_extension,
     full_path |-> PathJoin(l.target.dir, l.core \o l.file_extension),
     dirs_after |-> IF l.target.created THEN l.ds \cup Ancestors(l.target.dir) ELSE l.ds] @@ l

\* the length check and the reduced core
Reduced(l) ==
    [reduce |-> PathTooLong(l.full_path, l.is_windows),
     reduced_core |-> sanitize_filename(makeFilename(l.scene_info,
                                                     ReducedTemplate(l.scene_info)))] @@ l

\* the renaming with a reduced name that loses the extension
RenamedWithoutExtension(l) ==
    [new_filename |-> IF l.reduce THEN l.reduced_core ELSE l.full_name,
     new_path |-> IF l.reduce THEN PathJoin(l.current_directory, l.reduced_core)
                  ELSE l.full_path] @@ l

\* new_filename and new_path after the length check
Renamed(l) ==
    [new_filename |-> IF l.reduce THEN l.reduced_core \o l.file_extension ELSE l.full_name,
     new_path |-> IF l.reduce
                  THEN PathJoin(l.current_directory, l.reduced_core \o l.file_extension)
                  ELSE l.full_path] @@ l

\* the branch the loop body takes:
\*   "nopath" | "grouped" | "missing" | "empty" | "reduced_empty" |
\*   "too_long" | "duplicate" | "skip" | "execute"
BranchTaken(l) ==
    IF l.current_path = <<>> THEN "nopath"
    ELSE IF l.c.SKIP_GROUPED /\ l.grouped THEN "grouped"
    ELSE IF Contains(l.composed, NoneMarker) THEN "missing"
    ELSE IF Strip(l.core) = <<>> THEN "empty"
    ELSE IF l.reduce /\ Strip(l.reduced_core) = <<>> THEN "reduced_empty"
    ELSE IF l.reduce /\ ~ReducedFits(l.new_path) THEN "too_long"
    ELSE IF l.new_path # l.current_path /\ PathExists(l.new_path, l.fs, l.dirs_after)
    THEN "duplicate"
    ELSE IF AlreadyGood(l.new_path, l.current_path) THEN "skip"
    ELSE "execute"

\* what the pass leaves behind; the directory block is reached only by a pass
\* that got beyond the composition checks
PlanRecord(l, kind) ==
    [kind |-> kind,
     current_path |-> l.current_path, current_filename |-> l.current_filename,
     new_filename |-> l.new_filename, new_path |-> l.new_path,
     final_directory |-> l.target.dir,
     created |-> l.target.created /\ kind \notin {"nopath", "grouped", "missing", "empty"},
     dirs_after |-> IF kind \in {"nopath", "grouped", "missing", "empty"} THEN l.ds
                    ELSE l.dirs_after,
     reduced |-> l.reduce]

PlanOf(l) == PlanRecord(l, BranchTaken(l))

\* The plan for one scene
Plan(scene, template, c, is_windows, fs, ds) ==
    PlanOf(Renamed(Reduced(Joined(Targeted(Sanitized(Composed(
        LoopLocals(scene, template, c, is_windows, fs, ds))))))))

(***************************************************************************)
(* Operation executor and the remote move                                  *)
(***************************************************************************)
\* the dict appended to operations; error is "" when the dict has none
Operation(scene, plan, status, error) ==
    [scene_id |-> scene.id, title |-> scene.title, status |-> status, error |-> error,
     old_filename |-> plan.current_filename, new_filename |-> plan.new_filename,
     old_path |-> plan.current_path, new_path |-> plan.new_path]

\* file_ids: the ids of the scene's files whose path is current_path
FileIds(scene, current_path) ==
    LET hit == SelectSeq(scene.files, LAMBDA f : f.path = current_path)
    IN  [i \in 1..Len(hit) |-> hit[i].id]

\* where the service puts a file moved to destination_folder, destination_basename
MoveTarget(folder, basename) == NormPath(PathJoin(folder, basename))

\* The service can carry out a move only of files it knows, onto a free path
\* dest under a folder no file stands in the way of; any move may also fail.
MoveCanSucceed(file_ids, folder, dest) ==
    /\ NoId \notin SeqRange(file_ids)
    /\ dest \notin (files \cup dirs)
    /\ Ancestors(folder) \cap files = {}

\* the catalog after a successful move of the files file_ids to dest
CatalogAfterMove(file_ids, dest) ==
    [k \in SceneKeys |->
        [catalog[k] EXCEPT !.files =
            [i \in 1..Len(@) |->
                IF @[i].id \in SeqRange(file_ids)
                THEN [@[i] EXCEPT !.path = dest]
                ELSE @[i]]]]

\* the paths of the files file_ids
PathsOf(file_ids) ==
    {p \in files : \E k \in SceneKeys : \E i \in 1..Len(catalog[k].files) :
        catalog[k].files[i].id \in SeqRange(file_ids) /\ catalog[k].files[i].path = p}

\* the record kept of one moveFiles mutation
MoveCall(scene, file_ids, plan, ok) ==
    [scene_id |-> scene.id, ids |-> file_ids, old_path |-> plan.current_path,
     destination_folder |-> plan.final_directory,
     destination_basename |-> plan.new_filename, ok |-> ok]

\* a faulty variant of AfterFailure that leaves the loop; C5's property is
\* tested against it
AbortAfterFailure(i, n) == n + 1

\* "continue" after a failed move: the loop goes on with the next scene
AfterFailure(i, n) == i + 1

(***************************************************************************)
(* Inputs of the model                                                     *)
(***************************************************************************)
TplTitle == <<"$", "t", "i", "t", "l", "e">>

TplStudioTitle == <<"$", "s", "t", "u", "d", "i", "o", " ", "-", " ">> \o TplTitle

PtStudio == <<"$", "s", "t", "u", "d", "i", "o">>

Templates == {TplTitle, TplStudioTitle}

\* path_template and path_is_absolute; <<>> is no path_template
PathTemplates ==
    {[path_template |-> <<>>, path_is_absolute |-> FALSE],
     [path_template |-> PtStudio, path_is_absolute |-> FALSE],
     [path_template |-> PtStudio, path_is_absolute |-> TRUE]}

\* the options dicts run() is called with; a flag is "true", "false" or
\* "absent".  The service knows the tags A and B and no tag Z.
Options ==
    {[dry_run |-> d, using_log |-> "absent", template |-> t,
      path_template |-> p.path_template, path_is_absolute |-> p.path_is_absolute,
      tags |-> g, path_like |-> <<>>, exclude_path_like |-> <<>>] :
        d \in {"true", "false"}, t \in Templates, p \in PathTemplates,
        g \in {<<>>, << <<"A">>, <<"B">> >>, << <<"Z">>, <<"A">> >>}}

MediaDir == <<"/", "m">>

Scene1(title, studio, date, fid) ==
    [id |-> <<"1">>, title |-> title, date |-> date, studio |-> studio,
     tags |-> << <<"A">>, <<"B">> >>, path |-> <<>>,
     files |-> <<[id |-> fid, path |-> MediaDir \o <<"/", "a", ".", "x">>]>>]

Scene2(title) ==
    [id |-> <<"2">>, title |-> title, date |-> <<>>, studio |-> <<"S">>,
     tags |-> << <<"A">> >>, path |-> <<>>,
     files |-> <<[id |-> "f2", path |-> MediaDir \o <<"/", "b", ".", "x">>]>>]

\* the scene with path p for its file
WithFilePath(scene, p) == [scene EXCEPT !.files = <<[id |-> @[1].id, path |-> p]>>]

\* The catalogs of the model.  Scene 2 is titled T under studio S; scene 1 is
\*   the same title and studio (both scenes compose the same name),
\*   the same without a file identifier,
\*   another title (the two names differ),
\*   a long studio (the composed path passes the ceiling, the reduced one fits),
\*   a long studio with a date (the reduced template is date and title),
\*   a long studio without title (the reduced core is empty),
\*   a long title (the reduced path passes the ceiling too),
\*   another title, a long studio and a file without extension.
Catalogs ==
    {<<s, Scene2(<<"T">>)>> :
        s \in {Scene1(<<"T">>, <<"S">>, <<>>, "f1"),
               Scene1(<<"T">>, <<"S">>, <<>>, NoId),
               Scene1(<<"U">>, <<"S">>, <<>>, "f1"),
               Scene1(<<"T">>, <<"LONG">>, <<>>, "f1"),
               Scene1(<<"T">>, <<"LONG">>, <<"9">>, "f1"),
               Scene1(<<>>, <<"LONG">>, <<>>, "f1"),
               Scene1(<<"LONG">>, <<"S">>, <<>>, "f1"),
               WithFilePath(Scene1(<<"U">>, <<"LONG">>, <<>>, "f1"), MediaDir \o <<"/", "a">>)}}

(***************************************************************************)
(* Initial state: the module globals as the source sets them (lines 12-29) *)
(***************************************************************************)
NoCall == [fn |-> "none"]

Init ==
    /\ IS_WINDOWS \in BOOLEAN
    /\ catalog \in Catalogs
    /\ remoteTags = <<[id |-> "10", name |-> <<"A">>], [id |-> "11", name |-> <<"B">>]>>
    /\ files = {catalog[k].files[i].path : k \in DOMAIN catalog, i \in {1}}
    /\ dirs = Ancestors(MediaDir)
    /\ cfg = [USING_LOG |-> TRUE, DRY_RUN |-> FALSE, DEBUG_MODE |-> TRUE,
              SKIP_GROUPED |-> FALSE, PATH_TEMPLATE |-> <<>>, PATH_IS_ABSOLUTE |-> FALSE,
              PERFORMER_GENDERS |-> {},
              FILTERS |-> NoFilters]
    /\ pc = "idle"
    /\ runs = 0
    /\ opts = <<>>
    /\ pairs = <<>>
    /\ tpl = <<>>
    /\ batch = <<>>
    /\ idx = 0
    /\ operations = <<>>
    /\ all_operations = <<>>
    /\ dryrunTxt = <<>>
    /\ renameLog = <<>>
    /\ failTxt = <<>>
    /\ dupTxt = <<>>
    /\ moveLog = <<>>
    /\ queryLog = <<>>
    /\ call = NoCall
    /\ result = <<>>

(***************************************************************************)
(* run(): configuration and the list of sub-runs                           *)
(***************************************************************************)
\* options.get(flag, CURRENT): the option when given, else the global as it is
OptFlag(o, current) == IF o = "absent" THEN current ELSE o = "true"

\* options.get(key, CURRENT) for a flag: a missing key is "absent"
FlagOption(o, key, current) == OptFlag(Get(o, key, "absent"), current)

\* str(v).strip() on the gender texts the options use
StripText(v) ==
    CASE v = " female " -> "female"
      [] v = " " -> ""
      [] OTHER -> v

\* the known enum values and the UNKNOWN pseudo-gender
AllowedGenders ==
    {"MALE", "FEMALE", "TRANSGENDER_MALE", "TRANSGENDER_FEMALE", "INTERSEX", "NON_BINARY",
     "UNKNOWN"}

\* parse_genders without line 827: the values outside the enum are kept
KeepUnrecognized(val) == {Upper(StripText(val[i])) : i \in 1..Len(val)} \ {""}

\* parse_genders for a list of texts (a single text is the list of it, a
\* missing option the empty list); {} is None
parse_genders(val) ==
    ({Upper(StripText(val[i])) : i \in 1..Len(val)} \ {""}) \cap AllowedGenders

\* {str(n).strip() for n in names if str(n).strip()}
NameSet(names) == {Strip(names[i]) : i \in 1..Len(names)} \ {<<>>}

\* the keys run() puts into FILTERS for the options o
FilterKeysOf(o) ==
    {k \in {"organized", "interactive", "min_scene_markers", "studio_names", "group_names",
            "tag_names", "performer_genders"} :
        CASE k = "performer_genders" ->
                parse_genders(Get(o, "filter_performer_genders", <<>>)) # {}
          [] k = "organized" -> "filter_organized" \in DOMAIN o
          [] k = "interactive" -> "filter_interactive" \in DOMAIN o
          [] k = "min_scene_markers" -> "filter_min_scene_markers" \in DOMAIN o
          [] k = "studio_names" -> "filter_studio" \in DOMAIN o
          [] k = "group_names" -> "filter_groups" \in DOMAIN o
          [] k = "tag_names" -> "filter_tags" \in DOMAIN o}

\* FILTERS as lines 833-857 build it
BuildFilters(o) ==
    [k \in FilterKeysOf(o) |->
        CASE k = "performer_genders" -> parse_genders(o["filter_performer_genders"])
          [] k = "organized" -> Truthy(o["filter_organized"])
          [] k = "interactive" -> Truthy(o["filter_interactive"])
          [] k = "min_scene_markers" -> o["filter_min_scene_markers"]
          [] k = "studio_names" -> NameSet(o["filter_studio"])
          [] k = "group_names" -> NameSet(o["filter_groups"])
          [] k = "tag_names" -> NameSet(o["filter_tags"])]

\* the globals after run() has read the options
Configure(o, c) ==
    [USING_LOG |-> FlagOption(o, "using_log", c.USING_LOG),
     DRY_RUN |-> FlagOption(o, "dry_run", c.DRY_RUN),
     DEBUG_MODE |-> FlagOption(o, "debug_mode", c.DEBUG_MODE),
     SKIP_GROUPED |-> FlagOption(o, "skip_grouped", c.SKIP_GROUPED),
     PATH_TEMPLATE |-> Get(o, "path_template", <<>>),
     PATH_IS_ABSOLUTE |-> Get(o, "path_is_absolute", FALSE),
     PERFORMER_GENDERS |-> parse_genders(Get(o, "performer_genders", <<>>)),
     FILTERS |-> BuildFilters(o)]

\* the sub-runs: one per tag with the template, or one without tags
TagTemplatePairs(o) ==
    IF Get(o, "tags", <<>>) # <<>> /\ Get(o, "template", <<>>) # <<>>
    THEN [i \in 1..Len(o.tags) |-> [tag_names |-> <<o.tags[i]>>, template |-> o.template]]
    ELSE IF Strip(Get(o, "template", <<>>)) # <<>>
         THEN <<[tag_names |-> <<>>, template |-> o.template]>>
         ELSE <<>>

StartRun(o) ==
    /\ pc = "idle"
    /\ runs < MaxRuns
    /\ runs' = runs + 1
    /\ opts' = o
    /\ cfg' = Configure(o, cfg)
    /\ dryrunTxt' = IF cfg'.DRY_RUN THEN <<>> ELSE dryrunTxt
    /\ pairs' = TagTemplatePairs(o)
    /\ all_operations' = <<>>
    /\ operations' = <<>>
    /\ moveLog' = <<>>
    /\ queryLog' = <<>>
    /\ batch' = <<>>
    /\ idx' = 0
    /\ tpl' = <<>>
    /\ pc' = "run"
    /\ UNCHANGED <<IS_WINDOWS, catalog, remoteTags, files, dirs, renameLog, failTxt, dupTxt>>
    /\ UNCHANGED callVars

\* edit_run without the early returns of lines 504-510: an empty list of tag
\* ids is no tag constraint
SelectScenesAnyway(tag_names, o) ==
    iterate_scenes(build_scene_filter({ResolveTag(tag_names[i]) : i \in 1..Len(tag_names)}
                                      \ {NoId}),
                   Get(o, "path_like", <<>>), Get(o, "exclude_path_like", <<>>))

\* edit_run up to its loop: the scenes to work on, <<>> on an early return
SelectScenes(tag_names, o) ==
    LET mapping == find_tag_ids_by_names(tag_names)
        tag_ids == {mapping[n] : n \in DOMAIN mapping}
    IN  IF tag_names # <<>> /\ tag_ids = {} THEN <<>>
        ELSE iterate_scenes(build_scene_filter(tag_ids), Get(o, "path_like", <<>>),
                            Get(o, "exclude_path_like", <<>>))

\* the findScenes queries iterate_scenes sends: the count, then each page
IterateQueries(scene_filter) ==
    <<[query |-> "count", page |-> 0, scene_filter |-> scene_filter]>>
    \o [i \in 1..CeilDiv(get_total_scenes(scene_filter), BATCH_SIZE) |->
            [query |-> "page", page |-> i, scene_filter |-> scene_filter]]

\* the findScenes queries edit_run sends: none on the early return
SceneQueries(tag_names) ==
    LET mapping == find_tag_ids_by_names(tag_names)
        tag_ids == {mapping[n] : n \in DOMAIN mapping}
    IN  IF tag_names # <<>> /\ tag_ids = {} THEN <<>>
        ELSE IterateQueries(build_scene_filter(tag_ids))

\* run() calls edit_run for the next pair; edit_run resolves the tags and
\* fetches the scenes
StartSubRun ==
    /\ pc = "run"
    /\ pairs # <<>>
    /\ queryLog' = queryLog \o SceneQueries(Head(pairs).tag_names)
    /\ LET scenes == SelectScenes(Head(pairs).tag_names, opts)
       IN  /\ tpl' = Head(pairs).template
           /\ operations' = <<>>
           /\ IF scenes = <<>>
              THEN /\ pairs' = Tail(pairs)
                   /\ UNCHANGED <<pc, batch, idx>>
              ELSE /\ batch' = scenes
                   /\ idx' = 1
                   /\ pc' = "scenes"
                   /\ UNCHANGED pairs
    /\ UNCHANGED <<IS_WINDOWS, catalog, remoteTags, files, dirs, cfg, runs, opts,
                   all_operations, dryrunTxt, renameLog, failTxt, dupTxt, moveLog>>
    /\ UNCHANGED callVars

\* one pass of edit_run's loop over the scenes; ok is the service's answer
\* to the move, when one is sent
ProcessScene(ok) ==
    /\ pc = "scenes"
    /\ idx <= Len(batch)
    /\ \E plan \in {Plan(batch[idx], tpl, cfg, IS_WINDOWS, files, dirs)} :
       \E file_ids \in {FileIds(batch[idx], batch[idx].path)} :
       \E dest \in {MoveTarget(plan.final_directory, plan.new_filename)} :
       \E scene \in {batch[idx]} :
       \E line \in {<<plan.current_path, plan.new_path>>} :
           CASE plan.kind \in {"nopath", "grouped", "missing", "empty", "reduced_empty", "too_long",
                             "skip"} ->
                  /\ ok
                  /\ dirs' = plan.dirs_after
                  /\ idx' = idx + 1
                  /\ UNCHANGED <<catalog, files, operations, dryrunTxt, renameLog, failTxt,
                                 dupTxt, moveLog>>
             [] plan.kind = "duplicate" ->
                  /\ ok
                  /\ dirs' = plan.dirs_after
                  /\ dupTxt' = Append(dupTxt, <<scene.id, plan.new_filename>>)
                  /\ idx' = idx + 1
                  /\ UNCHANGED <<catalog, files, operations, dryrunTxt, renameLog, failTxt,
                                 moveLog>>
             [] plan.kind = "execute" /\ cfg.DRY_RUN ->
                  /\ ok
                  /\ dirs' = plan.dirs_after
                  /\ dryrunTxt' = Append(dryrunTxt, line)
                  /\ operations' = Append(operations, Operation(scene, plan, "pending", ""))
                  /\ idx' = idx + 1
                  /\ UNCHANGED <<catalog, files, renameLog, failTxt, dupTxt, moveLog>>
             [] plan.kind = "execute" /\ ~cfg.DRY_RUN /\ file_ids = <<>> ->
                  /\ ok
                  /\ dirs' = plan.dirs_after
                  /\ operations' = Append(operations,
                                          Operation(scene, plan, "error", "No file ID found for path"))
                  /\ idx' = idx + 1
                  /\ UNCHANGED <<catalog, files, dryrunTxt, renameLog, failTxt, dupTxt, moveLog>>
             [] plan.kind = "execute" /\ ~cfg.DRY_RUN /\ file_ids # <<>> ->
                  /\ ok => MoveCanSucceed(file_ids, plan.final_directory, dest)
                  /\ moveLog' = Append(moveLog, MoveCall(scene, file_ids, plan, ok))
                  /\ IF ok
                     THEN /\ files' = (files \ PathsOf(file_ids)) \cup {dest}
                          /\ dirs' = plan.dirs_after \cup Ancestors(plan.final_directory)
                          /\ catalog' = CatalogAfterMove(file_ids, dest)
                          /\ renameLog' = IF cfg.USING_LOG
                                          THEN Append(renameLog, <<scene.id>> \o line)
                                          ELSE renameLog
                          /\ operations' = Append(operations,
                                                  Operation(scene, plan, "success", ""))
                          /\ idx' = idx + 1
                          /\ UNCHANGED failTxt
                     ELSE /\ dirs' = plan.dirs_after
                          /\ failTxt' = Append(failTxt, line)
                          /\ operations' = Append(operations,
                                                  Operation(scene, plan, "error",
                                                            "GraphQL moveFiles returned false"))
                          /\ idx' = AfterFailure(idx, Len(batch))
                          /\ UNCHANGED <<catalog, files, renameLog>>
                  /\ UNCHANGED <<dryrunTxt, dupTxt>>
    /\ UNCHANGED <<IS_WINDOWS, remoteTags, cfg, pc, runs, opts, pairs, tpl, batch, all_operations,
                   queryLog>>
    /\ UNCHANGED callVars

\* edit_run returns its operations; run() extends all_operations with them
EndSubRun ==
    /\ pc = "scenes"
    /\ idx > Len(batch)
    /\ all_operations' = all_operations \o operations
    /\ pairs' = Tail(pairs)
    /\ pc' = "run"
    /\ UNCHANGED <<IS_WINDOWS, catalog, remoteTags, files, dirs, cfg, runs, opts, tpl, batch,
                   idx, operations, dryrunTxt, renameLog, failTxt, dupTxt, moveLog, queryLog>>
    /\ UNCHANGED callVars

\* run() returns all_operations
EndRun ==
    /\ pc = "run"
    /\ pairs = <<>>
    /\ pc' = "idle"
    /\ UNCHANGED <<IS_WINDOWS, catalog, remoteTags, files, dirs, cfg, runs, opts, pairs, tpl,
                   batch, idx, operations, all_operations, dryrunTxt, renameLog, failTxt,
                   dupTxt, moveLog, queryLog>>
    /\ UNCHANGED callVars

Next ==
    \/ \E o \in Options : StartRun(o)
    \/ StartSubRun
    \/ \E ok \in BOOLEAN : ProcessScene(ok)
    \/ EndSubRun
    \/ EndRun

Spec == Init /\ [][Next]_vars

(***************************************************************************)
(* run() under options that leave keys out and that name genders and       *)
(* filters, over scenes with performers                                    *)
(***************************************************************************)
\* the module globals as the source sets them when it is loaded
LoadedGlobals ==
    [USING_LOG |-> TRUE, DRY_RUN |-> FALSE, DEBUG_MODE |-> TRUE, SKIP_GROUPED |-> FALSE,
     PATH_TEMPLATE |-> <<>>, PATH_IS_ABSOLUTE |-> FALSE, PERFORMER_GENDERS |-> {},
     FILTERS |-> NoFilters]

TplPerformers == <<"$", "p", "e", "r", "f", "o", "r", "m", "e", "r", "s">>

\* a performer as the service reports it; gender "" is null
Performer(name, gender) == [name |-> name, gender |-> gender]

\* a scene with performers, and the fields the filters read
CastScene(id, file, performers, groups, organized) ==
    [id |-> <<id>>, title |-> <<"T">>, date |-> <<>>, studio |-> <<"S">>, tags |-> <<>>,
     path |-> <<>>,
     files |-> <<[id |-> "f" \o id, path |-> MediaDir \o <<"/">> \o file \o <<".", "x">>]>>,
     performers |-> performers, groups |-> groups, organized |-> organized,
     interactive |-> "null", scene_markers |-> <<>>]

\* three scenes: a cast of a woman, a man and a performer of no stated
\* gender; a grouped scene with the man alone; a scene without performers
CastCatalog ==
    <<CastScene("1", <<"a">>, <<Performer(<<"P">>, "female"), Performer(<<"Q">>, "male"),
                               Performer(<<"R">>, "")>>, <<>>, "true"),
      CastScene("2", <<"b">>, <<Performer(<<"Q">>, "male")>>, << <<"G">> >>, "false"),
      CastScene("3", <<"c">>, <<>>, <<>>, "null")>>

\* the keys every options dict of this section holds
CastOptions == [template |-> TplPerformers]

\* flags and filters given, or left out
FlagChoices ==
    {<<>>,
     [dry_run |-> "true"],
     [dry_run |-> "false", using_log |-> "false"],
     [dry_run |-> "true", debug_mode |-> "false", skip_grouped |-> "true"],
     [dry_run |-> "true", filter_organized |-> "true", filter_studio |-> << <<" ", "S">> >>,
      filter_min_scene_markers |-> 0]}

\* gender options: left out, values outside the enum alone, values of the
\* enum among others, the pseudo-gender
GenderChoices ==
    {<<>>,
     [performer_genders |-> <<"bogus">>],
     [performer_genders |-> <<"bogus", " female ">>],
     [performer_genders |-> <<"unknown", " ">>],
     [filter_performer_genders |-> <<"bogus">>],
     [filter_performer_genders |-> <<"unknown", "bogus">>],
     [performer_genders |-> <<"bogus", "">>, filter_performer_genders |-> <<"bogus", "female">>]}

VariedOptions ==
    {flags @@ genders @@ CastOptions : flags \in FlagChoices, genders \in GenderChoices}

InitOptions ==
    /\ IS_WINDOWS = FALSE
    /\ catalog = CastCatalog
    /\ remoteTags = <<>>
    /\ files = {catalog[k].files[i].path : k \in DOMAIN catalog, i \in {1}}
    /\ dirs = Ancestors(MediaDir)
    /\ cfg = LoadedGlobals
    /\ pc = "idle"
    /\ runs = 0
    /\ opts = <<>>
    /\ pairs = <<>>
    /\ tpl = <<>>
    /\ batch = <<>>
    /\ idx = 0
    /\ operations = <<>>
    /\ all_operations = <<>>
    /\ dryrunTxt = <<>>
    /\ renameLog = <<>>
    /\ failTxt = <<>>
    /\ dupTxt = <<>>
    /\ moveLog = <<>>
    /\ queryLog = <<>>
    /\ call = NoCall
    /\ result = <<>>

NextOptions ==
    \/ \E o \in VariedOptions : StartRun(o)
    \/ StartSubRun
    \/ \E ok \in BOOLEAN : ProcessScene(ok)
    \/ EndSubRun
    \/ EndRun

SpecOptions == InitOptions /\ [][NextOptions]_vars

(***************************************************************************)
(* Direct calls of the pure functions: makeFilename, sanitize_filename,    *)
(* _build_target_directory, scene_passes_filters, the token resolver of    *)
(* edit_run and find_tag_ids_by_names                                      *)
(***************************************************************************)
\* the token of a key of the tokens dict
Token(key) == TokenTable[CHOOSE i \in 1..Len(TokenTable) : TokenTable[i][2] = key][1]

\* every known token, in the order of the tokens dict, joined by spaces
RECURSIVE AllTokensFrom(_)
AllTokensFrom(i) ==
    IF i > Len(TokenTable) THEN <<>>
    ELSE IF i = Len(TokenTable) THEN TokenTable[i][1]
    ELSE TokenTable[i][1] \o <<" ">> \o AllTokensFrom(i + 1)

AllTokensTemplate == AllTokensFrom(1)

ComposeTemplates == {AllTokensTemplate, TplStudioTitle}

\* scene_info dicts whose values are plain, empty, or the text of a token
ComposeInfos ==
    {[k \in TokenKeys |->
        CASE k = "id" -> <<"7">>
          [] k = "title" -> t
          [] k = "studio" -> st
          [] k = "performers" -> p
          [] k = "height" -> h
          [] OTHER -> <<>>] :
        t \in {<<"T">>, <<>>, Token("id"), Token("studio"), Token("height")},
        st \in {<<"S">>, <<>>, Token("title"), Token("height")},
        p \in {<<>>, <<"P">>, Token("performer")},
        h \in {<<>>, <<"1", "0", "8", "0", "p">>}}

\* a template of three tokens joined by " - "
TplStudioDateTitle ==
    <<"$", "s", "t", "u", "d", "i", "o", " ", "-", " ", "$", "d", "a", "t", "e", " ", "-", " ">>
    \o TplTitle

\* values of the three tokens: empty, plain, a date-like value with single
\* inner hyphens, a value with an inner space, a value with a doubled inner
\* hyphen
SeparatorValues ==
    {<<>>, <<"S">>, <<"1", "-", "2", "-", "3">>, <<"A", " ", "B">>, <<"a", "-", "-", "b">>}

SeparatorInfos ==
    {[k \in TokenKeys |->
        CASE k = "studio" -> st
          [] k = "date" -> d
          [] k = "title" -> t
          [] OTHER -> <<>>] :
        st \in SeparatorValues, d \in SeparatorValues, t \in SeparatorValues}

\* a scene_info in which every key has a value of its own: "v" and the two
\* digits of the key's position in the tokens dict, between the given margins
OwnValue(i) == <<"v", Digits[(i \div 10) + 1], Digits[(i % 10) + 1]>>

OwnValueInfo(margin) ==
    [k \in TokenKeys |->
        margin \o OwnValue(CHOOSE i \in 1..Len(TokenTable) : TokenTable[i][2] = k) \o margin]

OwnValueInfos == {OwnValueInfo(<<>>), OwnValueInfo(<<" ">>)}

\* the templates that consist of one token
SingleTokens == {TokenTable[i][1] : i \in 1..Len(TokenTable)}

\* a makeFilename call
MakeFilenameCall(scene_info, query) ==
    [fn |-> "makeFilename", scene_info |-> scene_info, query |-> query, returned |-> FALSE]

\* the calls of the model: makeFilename on a scene_info and a template
ComposeCalls ==
    {MakeFilenameCall(scene_info, query) :
        scene_info \in ComposeInfos, query \in ComposeTemplates}
    \cup {MakeFilenameCall(scene_info, TplStudioDateTitle) : scene_info \in SeparatorInfos}
    \cup {MakeFilenameCall(scene_info, query) :
            scene_info \in OwnValueInfos, query \in SingleTokens}

\* the longest name a direct sanitize_filename call is given
MaxNameLen == 4

\* the characters of those names: a letter, the space, the dot, a whitespace
\* character that is not the space, a control character that is whitespace, a
\* control character that is not, two forbidden characters
NameChars == {"a", " ", ".", "NBSP", "TAB", "DEL", "#", "/"}

StringsUpTo(chars, n) == UNION {[1..k -> chars] : k \in 0..n}

SanitizeCalls ==
    {[fn |-> "sanitize_filename", name |-> name, returned |-> FALSE] :
        name \in StringsUpTo(NameChars, MaxNameLen)}

\* directories, values and templates of the direct _build_target_directory calls
DirMediaAcmeOld ==
    <<"/", "m", "e", "d", "i", "a", "/", "A", "c", "m", "e", "/", "o", "l", "d">>

Acme == <<"A", "c", "m", "e">>

Archive == <<"A", "r", "c", "h", "i", "v", "e">>

PtStudioUpArchive == PtStudio \o Sep \o UpToken \o Sep \o Archive

PtUpUpStudio == UpToken \o Sep \o UpToken \o Sep \o PtStudio

\* the greatest number of parent markers in a template made of them alone
MaxUps == 4

\* k parent markers joined by "/"; the empty template for k = 0
RECURSIVE UpChain(_)
UpChain(k) ==
    IF k = 0 THEN <<>>
    ELSE IF k = 1 THEN UpToken
    ELSE UpToken \o Sep \o UpChain(k - 1)

UpChains == {UpChain(k) : k \in 0..MaxUps}

\* segment texts that are not empty, "." or the marker: a letter, a forbidden
\* character, three dots
CancelSegments == {<<"x">>, <<"#">>, <<".", ".", ".">>}

\* a named segment followed by the parent marker
SegmentUp(seg) == seg \o Sep \o UpToken

\* values of the studio field: a name, none, the text of the parent marker's
\* expansion, a dot, and values that hold a separator
StudioValues ==
    {Acme, <<>>, DotDot, <<".">>, <<"a", "/", "b">>, <<"a", "BSLASH", "b">>}

DirectoryTemplates ==
    {PtStudioUpArchive, PtUpUpStudio, Archive, PtStudio}
    \cup UpChains \cup {SegmentUp(seg) : seg \in CancelSegments}

DirectoryCalls ==
    {[fn |-> "_build_target_directory", current_directory |-> d,
      scene_info |-> [k \in TokenKeys |-> IF k = "studio" THEN st ELSE <<>>],
      path_template |-> pt, is_absolute |-> abs, returned |-> FALSE] :
        d \in {DirMediaAcmeOld, MediaDir, Sep}, st \in StudioValues,
        pt \in DirectoryTemplates, abs \in BOOLEAN}

\* the scenes of the direct scene_passes_filters calls: a JSON boolean for
\* organized (interactive is its opposite), a number of markers, and one of
\* three profiles of studio, groups, tags and performers
FilterScene(organized, markers, profile) ==
    [id |-> <<"1">>, title |-> <<"T">>, date |-> <<>>, path |-> MediaDir \o <<"/", "a", ".", "x">>,
     files |-> <<[id |-> "f1", path |-> MediaDir \o <<"/", "a", ".", "x">>]>>,
     organized |-> organized,
     interactive |-> IF organized = "true" THEN "false" ELSE "true",
     scene_markers |-> [i \in 1..markers |-> i],
     studio |-> CASE profile = 1 -> <<"S">>
                  [] profile = 2 -> <<" ", "S", " ">>
                  [] OTHER -> <<>>,
     groups |-> CASE profile = 1 -> << <<"G">> >>
                  [] profile = 2 -> <<>>
                  [] OTHER -> << <<"H">>, <<" ">> >>,
     tags |-> CASE profile = 1 -> << <<"A">> >>
                [] profile = 2 -> <<>>
                [] OTHER -> << <<"B">>, <<" ", "A">> >>,
     performers |-> CASE profile = 1 -> <<[name |-> <<"P">>, gender |-> "female"]>>
                      [] profile = 2 -> <<[name |-> <<"Q">>, gender |-> ""]>>
                      [] OTHER -> <<>>]

FilterScenes ==
    {FilterScene(o, m, p) : o \in {"true", "null"}, m \in {0, 2}, p \in 1..3}

\* the keys of FILTERS
FilterKeys ==
    {"organized", "interactive", "min_scene_markers", "studio_names", "group_names",
     "tag_names", "performer_genders"}

\* a dict without the keys outside keys
Restrict(d, keys) == [k \in keys |-> d[k]]

\* the FILTERS dicts run() can build: any set of keys, with these values
FilterSets ==
    {Restrict(full, keys) :
        full \in [organized : BOOLEAN, interactive : {TRUE}, min_scene_markers : {1},
                  studio_names : {{}, {<<"S">>}}, group_names : {{<<"G">>}},
                  tag_names : {{<<"A">>}}, performer_genders : {{"FEMALE"}, {"UNKNOWN"}}],
        keys \in SUBSET FilterKeys}

FilterCalls ==
    {[fn |-> "scene_passes_filters", scene |-> scene, filters |-> filters, returned |-> FALSE] :
        scene \in FilterScenes, filters \in FilterSets}

\* the scenes of the direct calls of the token resolver: the numeric fields
\* named by keys hold n, the boolean fields named by keys hold b, the other
\* numeric and boolean fields are missing
ResolveScene(n, b, keys) ==
    Restrict([k \in NumberKeys \cup BoolKeys |-> IF k \in NumberKeys THEN n ELSE b], keys)
    @@ [id |-> <<"1">>, title |-> <<"T">>]

ResolveCalls ==
    {[fn |-> "scene_info", scene |-> ResolveScene(n, b, keys), returned |-> FALSE] :
        n \in {0, 7, 100}, b \in {"true", "false", "null"},
        keys \in {NumberKeys \cup BoolKeys, {}, {"rating100", "organized"},
                  {"play_count", "interactive_speed", "interactive"}}}

\* the tags of the service in the direct find_tag_ids_by_names calls: none,
\* the tag A, a tag whose name holds A, both in either order, two tags whose
\* names hold A
RemoteTagLists ==
    {<<>>,
     <<[id |-> "10", name |-> <<"A">>]>>,
     <<[id |-> "12", name |-> <<"A", "B">>]>>,
     <<[id |-> "12", name |-> <<"A", "B">>], [id |-> "10", name |-> <<"A">>]>>,
     <<[id |-> "10", name |-> <<"A">>], [id |-> "12", name |-> <<"A", "B">>]>>,
     <<[id |-> "12", name |-> <<"A", "B">>], [id |-> "13", name |-> <<"C", "A">>]>>}

TagCalls ==
    {[fn |-> "find_tag_ids_by_names", names |-> names, remote |-> remote, returned |-> FALSE] :
        names \in {<< <<"A">> >>, << <<"Z">>, <<"A">> >>, << <<"A", "B">>, <<"B">> >>},
        remote \in RemoteTagLists}

InitCompose ==
    /\ call \in ComposeCalls \cup SanitizeCalls \cup DirectoryCalls \cup FilterCalls
               \cup ResolveCalls \cup TagCalls
    /\ result = <<>>
    /\ IS_WINDOWS = FALSE
    /\ catalog = <<Scene1(<<"T">>, <<"S">>, <<>>, "f1"), Scene2(<<"T">>)>>
    /\ remoteTags = IF call.fn = "find_tag_ids_by_names" THEN call.remote ELSE <<>>
    /\ files = {}
    /\ dirs = {}
    /\ cfg = [USING_LOG |-> TRUE, DRY_RUN |-> FALSE, DEBUG_MODE |-> TRUE,
              SKIP_GROUPED |-> FALSE, PATH_TEMPLATE |-> <<>>, PATH_IS_ABSOLUTE |-> FALSE,
              PERFORMER_GENDERS |-> {},
              FILTERS |-> IF call.fn = "scene_passes_filters" THEN call.filters ELSE NoFilters]
    /\ pc = "idle"
    /\ runs = 0
    /\ opts = <<>>
    /\ pairs = <<>>
    /\ tpl = <<>>
    /\ batch = <<>>
    /\ idx = 0
    /\ operations = <<>>
    /\ all_operations = <<>>
    /\ dryrunTxt = <<>>
    /\ renameLog = <<>>
    /\ failTxt = <<>>
    /\ dupTxt = <<>>
    /\ moveLog = <<>>
    /\ queryLog = <<>>

\* makeFilename(scene_info, query) returns
ComposeFilename ==
    /\ call.fn = "makeFilename"
    /\ ~call.returned
    /\ call' = [call EXCEPT !.returned = TRUE]
    /\ result' = makeFilename(call.scene_info, call.query)
    /\ UNCHANGED runVars

\* sanitize_filename(name) returns
SanitizeFilename ==
    /\ call.fn = "sanitize_filename"
    /\ ~call.returned
    /\ call' = [call EXCEPT !.returned = TRUE]
    /\ result' = sanitize_filename(call.name)
    /\ UNCHANGED runVars

\* _build_target_directory(current_directory, scene_info, path_template,
\* is_absolute) returns
BuildTargetDirectory ==
    /\ call.fn = "_build_target_directory"
    /\ ~call.returned
    /\ call' = [call EXCEPT !.returned = TRUE]
    /\ result' = build_target_directory(call.current_directory, call.scene_info,
                                        call.path_template, call.is_absolute)
    /\ UNCHANGED runVars

\* scene_passes_filters(scene) returns, under the FILTERS global
ScenePassesFilters ==
    /\ call.fn = "scene_passes_filters"
    /\ ~call.returned
    /\ call' = [call EXCEPT !.returned = TRUE]
    /\ result' = scene_passes_filters(call.scene)
    /\ UNCHANGED runVars

\* edit_run has built scene_info for a scene, under the PERFORMER_GENDERS
\* global
ResolveTokens ==
    /\ call.fn = "scene_info"
    /\ ~call.returned
    /\ call' = [call EXCEPT !.returned = TRUE]
    /\ result' = SceneInfo(call.scene)
    /\ UNCHANGED runVars

\* find_tag_ids_by_names(names) returns
FindTagIds ==
    /\ call.fn = "find_tag_ids_by_names"
    /\ ~call.returned
    /\ call' = [call EXCEPT !.returned = TRUE]
    /\ result' = find_tag_ids_by_names(call.names)
    /\ UNCHANGED runVars

NextCompose ==
    \/ ComposeFilename
    \/ SanitizeFilename
    \/ BuildTargetDirectory
    \/ ScenePassesFilters
    \/ ResolveTokens
    \/ FindTagIds

SpecCompose == InitCompose /\ [][NextCompose]_vars

(***************************************************************************)
(* A direct call of iterate_scenes, query by query                         *)
(***************************************************************************)
\* the greatest number of pages a walk has to fetch
MaxWalkPages == 3

\* the sizes of the service's catalog: empty, one scene, a full page, a page
\* and one scene, and MaxWalkPages - 1 pages and one scene
WalkSizes ==
    {0, 1, BATCH_SIZE, BATCH_SIZE + 1, (MaxWalkPages - 1) * BATCH_SIZE + 1}

\* the identifier of the i-th scene, in three digits
WalkId(i) ==
    <<Digits[((i \div 100) % 10) + 1], Digits[((i \div 10) % 10) + 1], Digits[(i % 10) + 1]>>

\* the i-th scene of the service: every fifth scene has no file, every third
\* lies under /x, every second is organized
WalkScene(i) ==
    [id |-> WalkId(i), title |-> <<"T">>, date |-> <<>>, studio |-> <<"S">>, tags |-> <<>>,
     path |-> <<>>,
     files |-> IF i % 5 = 0 THEN <<>>
               ELSE <<[id |-> "f1",
                       path |-> (IF i % 3 = 0 THEN <<"/", "x">> ELSE MediaDir)
                                \o <<"/">> \o WalkId(i) \o <<".", "x">>]>>,
     organized |-> IF i % 2 = 0 THEN "true" ELSE "false",
     interactive |-> "null", scene_markers |-> <<>>, groups |-> <<>>, performers |-> <<>>]

WalkCatalogs == {[i \in 1..n |-> WalkScene(i)] : n \in WalkSizes}

\* the iterate_scenes calls: no tag constraint, with and without path
\* patterns (a pattern may consist of "%" alone), under FILTERS with and
\* without a key
WalkCalls ==
    {[fn |-> "iterate_scenes", scene_filter |-> {}, path_like |-> pl,
      exclude_path_like |-> ex, filters |-> f,
      at |-> "total", total |-> 0, pages |-> 0, i |-> 0, fetched |-> <<>>, results |-> <<>>,
      returned |-> FALSE] :
        pl \in {<<>>, <<"%", "/", "m", "/", "%">>, <<"%">>},
        ex \in {<<>>, <<"/", "x", "/">>, <<"%", "%">>},
        f \in {NoFilters, [organized |-> TRUE]}}

InitWalk ==
    /\ call \in WalkCalls
    /\ result = <<>>
    /\ IS_WINDOWS = FALSE
    /\ catalog \in WalkCatalogs
    /\ remoteTags = <<>>
    /\ files = {}
    /\ dirs = {}
    /\ cfg = [USING_LOG |-> TRUE, DRY_RUN |-> FALSE, DEBUG_MODE |-> TRUE,
              SKIP_GROUPED |-> FALSE, PATH_TEMPLATE |-> <<>>, PATH_IS_ABSOLUTE |-> FALSE,
              PERFORMER_GENDERS |-> {},
              FILTERS |-> call.filters]
    /\ pc = "idle"
    /\ runs = 0
    /\ opts = <<>>
    /\ pairs = <<>>
    /\ tpl = <<>>
    /\ batch = <<>>
    /\ idx = 0
    /\ operations = <<>>
    /\ all_operations = <<>>
    /\ dryrunTxt = <<>>
    /\ renameLog = <<>>
    /\ failTxt = <<>>
    /\ dupTxt = <<>>
    /\ moveLog = <<>>
    /\ queryLog = <<>>

\* total = get_total_scenes(scene_filter); pages = math.ceil(total / BATCH_SIZE)
WalkTotal ==
    /\ call.fn = "iterate_scenes"
    /\ call.at = "total"
    /\ \E total \in {get_total_scenes(call.scene_filter)} :
          call' = [call EXCEPT !.at = "pages", !.total = total,
                               !.pages = CeilDiv(total, BATCH_SIZE), !.i = 1]
    /\ queryLog' = Append(queryLog, [query |-> "count", page |-> 0,
                                     scene_filter |-> call.scene_filter])
    /\ UNCHANGED <<quietVars, result>>

\* one pass of the loop over the pages: the page is fetched and its scenes
\* that are kept are appended to results, each with its path set
WalkPage ==
    /\ call.fn = "iterate_scenes"
    /\ call.at = "pages"
    /\ call.i <= call.pages
    /\ \E scenes \in {get_scenes_page(call.i, call.scene_filter)} :
       \E kept \in {SelectSeq(scenes, LAMBDA sc :
                        KeepScene(sc, call.path_like, call.exclude_path_like))} :
          call' = [call EXCEPT !.i = @ + 1,
                               !.fetched = Append(@, scenes),
                               !.results = @ \o [j \in 1..Len(kept) |-> WithPath(kept[j])]]
    /\ queryLog' = Append(queryLog, [query |-> "page", page |-> call.i,
                                     scene_filter |-> call.scene_filter])
    /\ UNCHANGED <<quietVars, result>>

\* return results
WalkReturn ==
    /\ call.fn = "iterate_scenes"
    /\ call.at = "pages"
    /\ call.i > call.pages
    /\ call' = [call EXCEPT !.at = "returned", !.returned = TRUE]
    /\ result' = call.results
    /\ UNCHANGED runVars

NextWalk ==
    \/ WalkTotal
    \/ WalkPage
    \/ WalkReturn

SpecWalk == InitWalk /\ [][NextWalk]_vars

(***************************************************************************)
(* Properties                                                              *)
(***************************************************************************)
\* the operations of the current run() call, returned or still in edit_run
Emitted == SeqRange(all_operations) \cup SeqRange(operations)

\* edit_run's loop is about to work on batch[idx]
InLoop == pc = "scenes" /\ idx <= Len(batch)

\* the plan of the pass the loop is about to make
CurrentPlan == Plan(batch[idx], tpl, cfg, IS_WINDOWS, files, dirs)

Last(q) == q[Len(q)]

\* C1: after a live run in which a scene's move succeeded, so that the file
\* sits at the operation's new_path and the catalog reports that path,
\* planning the scene again with the same template and the same
\* configuration yields Skipped.
C1_SecondPlanSkips ==
    (pc = "idle" /\ ~cfg.DRY_RUN) =>
        \A k \in SceneKeys :
            (\E op \in SeqRange(all_operations) :
                /\ op.status = "success"
                /\ op.scene_id = catalog[k].id
                /\ op.new_path = catalog[k].files[1].path
                /\ op.new_path \in files)
            => Plan(WithPath(catalog[k]), opts.template, cfg, IS_WINDOWS, files, dirs).kind = "skip"

\* C2: the operations of one run never hold two pending or success
\* operations of two distinct scenes with the same new_path, in dry-run mode
\* as in live mode.
C2_NoSharedTarget ==
    \A a \in Emitted : \A b \in Emitted :
        (/\ a.status \in {"pending", "success"}
         /\ b.status \in {"pending", "success"}
         /\ a.scene_id # b.scene_id)
        => a.new_path # b.new_path

\* C3: in dry-run mode no step sends a move, renames a file, changes the
\* catalog or creates a directory, and every operation emitted is pending.
C3_DryRunInert ==
    [][cfg'.DRY_RUN =>
          /\ files' = files
          /\ dirs' = dirs
          /\ catalog' = catalog
          /\ moveLog' = <<>>
          /\ renameLog' = renameLog
          /\ failTxt' = failTxt
          /\ \A op \in Emitted' : op.status = "pending"]_vars

\* C3's case: a dry run has planned a move into a directory that the
\* directory template names and that does not exist.
C3_Witness ==
    /\ cfg.DRY_RUN
    /\ cfg.PATH_TEMPLATE # <<>>
    /\ \E op \in Emitted : op.status = "pending" /\ ~PathExists(PathDirname(op.new_path), files, dirs)

\* C4: no operation has new_path equal to old_path, and a pass over a scene
\* whose new path equals its current path emits no operation, sends no move
\* and writes no audit line.
C4_SkippedBeforeExecutor ==
    [][/\ \A op \in Emitted' : op.new_path # op.old_path
       /\ InLoop =>
            \A plan \in {CurrentPlan} :
                plan.new_path = plan.current_path =>
                    /\ UNCHANGED <<operations, moveLog, dryrunTxt, renameLog, failTxt, dupTxt>>
                    /\ UNCHANGED <<files, catalog>>
                    /\ idx' = idx + 1]_vars

\* C4's case: in a live run the loop has passed a scene that an earlier
\* sub-run of the same run had moved, and that is now already good.
C4_Witness ==
    /\ pc = "scenes"
    /\ idx > 1
    /\ ~cfg.DRY_RUN
    /\ Plan(batch[idx - 1], tpl, cfg, IS_WINDOWS, files, dirs).kind = "skip"
    /\ \E op \in SeqRange(all_operations) :
          op.status = "success" /\ op.new_path = batch[idx - 1].path

\* C5: a move that fails appends exactly one error operation with a message
\* and one line to the failure log, and the loop goes on with the next scene
\* of the batch.
C5_BestEffort ==
    [][(Len(moveLog') = Len(moveLog) + 1 /\ ~Last(moveLog').ok) =>
          /\ Len(operations') = Len(operations) + 1
          /\ SubSeq(operations', 1, Len(operations)) = operations
          /\ Last(operations').status = "error"
          /\ Last(operations').error # ""
          /\ Last(operations').scene_id = batch[idx].id
          /\ failTxt' = Append(failTxt, <<batch[idx].path, Last(operations').new_path>>)
          /\ pc' = "scenes"
          /\ batch' = batch
          /\ idx' = idx + 1]_vars

\* C5's case: in one batch the move of the first scene failed and the second
\* scene was moved all the same.
C5_Witness ==
    /\ Len(operations) = 2
    /\ operations[1].status = "error"
    /\ operations[2].status = "success"
    /\ Len(failTxt) >= 1

\* C6: within one run() call no two moves are sent for the same scene and
\* the same plan (old path, destination folder and name).  The moves looked
\* at are those of identified files, so that the case of C9 plays no part.
C6_SingleAttempt ==
    \A i \in 1..Len(moveLog) : \A j \in 1..Len(moveLog) :
        (i # j /\ NoId \notin SeqRange(moveLog[i].ids)) =>
            ~(/\ moveLog[i].scene_id = moveLog[j].scene_id
              /\ moveLog[i].old_path = moveLog[j].old_path
              /\ moveLog[i].destination_folder = moveLog[j].destination_folder
              /\ moveLog[i].destination_basename = moveLog[j].destination_basename)

\* the name the reduced template gives a scene
FallbackName(scene) ==
    sanitize_filename(makeFilename(SceneInfo(scene),
                                   IF scene.date # <<>> THEN ReducedDateTitle ELSE ReducedTitle))
        \o PathExtension(PathBasename(scene.path))

\* C7: on IS_WINDOWS every operation's new_path has at most 240 characters;
\* a name recomputed for a too long path is the fallback template's name;
\* and a scene whose reduced path is still too long gets no operation and no
\* move.
C7_PathCeiling ==
    [][/\ IS_WINDOWS => \A op \in Emitted' : PyLen(op.new_path) <= PathLimit
       /\ InLoop =>
            \A plan \in {CurrentPlan} :
                /\ plan.kind = "too_long" =>
                      UNCHANGED <<operations, moveLog>> /\ idx' = idx + 1
                /\ (plan.reduced /\ operations' # operations) =>
                      Last(operations').new_filename = FallbackName(batch[idx])]_vars

\* C7's case: on IS_WINDOWS an operation carries a name that is not the
\* template's name for its scene: the name was reduced.
C7_Witness ==
    /\ IS_WINDOWS
    /\ \E op \in Emitted : \E k \in SceneKeys :
          /\ op.scene_id = catalog[k].id
          /\ op.status = "success"
          /\ PyLen(PathJoin(PathDirname(op.old_path),
                            sanitize_filename(makeFilename(SceneInfo(catalog[k]), opts.template))
                                \o PathExtension(op.old_filename))) > PathLimit
          /\ op.new_filename = FallbackName([catalog[k] EXCEPT !.path = op.old_path])

\* C8: a pass over a scene whose core holds "None" or is empty after
\* sanitization, also in the reduced-template fallback, appends no
\* operation, sends no move and creates no directory, and the loop goes on.
C8_FailedCompositionEmitsNothing ==
    [][InLoop =>
          \A plan \in {CurrentPlan} :
              plan.kind \in {"missing", "empty", "reduced_empty"} =>
                  /\ UNCHANGED <<operations, moveLog, dirs>>
                  /\ idx' = idx + 1]_vars

\* C9: no move is sent for a file that has no identifier.
C9_NoMoveWithoutFileId ==
    \A i \in 1..Len(moveLog) : NoId \notin SeqRange(moveLog[i].ids)

\* C10: composing a template that holds every known token yields a string
\* in which no known token remains, whatever the values.
C10_NoTokenRemains ==
    (/\ call.fn = "makeFilename"
     /\ call.returned
     /\ \A i \in 1..Len(TokenTable) : Contains(call.query, TokenTable[i][1]))
    => \A i \in 1..Len(TokenTable) : ~Contains(result, TokenTable[i][1])

\* the non-empty strings of a sequence of strings, joined by " - "
RECURSIVE JoinDash(_)
JoinDash(values) ==
    IF values = <<>> THEN <<>>
    ELSE IF Head(values) = <<>> THEN JoinDash(Tail(values))
    ELSE LET rest == JoinDash(Tail(values))
         IN  IF rest = <<>> THEN Head(values) ELSE Head(values) \o <<" ", "-", " ">> \o rest

\* a value with no separator punctuation at its ends
FreeEnds(v) == v = <<>> \/ (v[1] \notin SepPunct /\ v[Len(v)] \notin SepPunct)

\* a value with two hyphens that only whitespace separates
HasHyphenChain(v) ==
    \E i, j \in 1..Len(v) :
        /\ i < j
        /\ v[i] = "-"
        /\ v[j] = "-"
        /\ \A m \in (i + 1)..(j - 1) : v[m] \in WhiteSpace

\* a value that no cleanup step of makeFilename touches: no whitespace at its
\* ends, no run of whitespace, no chain of hyphens, no bracket, no "$"
PlainValue(v) ==
    /\ FreeEnds(v)
    /\ v = <<>> \/ (v[1] \notin WhiteSpace /\ v[Len(v)] \notin WhiteSpace)
    /\ ~HasHyphenChain(v)
    /\ \A i \in 1..Len(v) : v[i] \notin {"$", "[", "]", "(", ")", "{", "}"}
    /\ \A i \in 1..(Len(v) - 1) : ~(v[i] \in WhiteSpace /\ v[i + 1] \in WhiteSpace)

\* makeFilename has returned from a call with the three-token template
SeparatorCallDone ==
    /\ call.fn = "makeFilename"
    /\ call.returned
    /\ call.query = TplStudioDateTitle

\* the values of the three tokens of the call, in template order
SeparatorCallValues ==
    <<call.scene_info["studio"], call.scene_info["date"], call.scene_info["title"]>>

SanitizeCallDone == call.fn = "sanitize_filename" /\ call.returned

\* C12: for every input x, sanitize_filename(sanitize_filename(x)) equals
\* sanitize_filename(x).
C12_SanitizerClosure ==
    SanitizeCallDone => sanitize_filename(result) = result

\* an input with a run of non-space whitespace and a dot at its end, which
\* the sanitizer changes into a non-empty name
C12_Witness ==
    /\ SanitizeCallDone
    /\ call.name = <<"NBSP", "NBSP", "a", ".">>
    /\ result = <<"a">>
    /\ sanitize_filename(result) = result

\* the characters the sanitizer is said to remove: the control characters
\* (codes below 32, and 127) and the forbidden characters
ClaimedControl == {"TAB", "NL", "DEL"}

ClaimedForbidden ==
    {"<", ">", ":", "DQUOTE", "/", "BSLASH", "|", "?", "*", "SQUOTE", "BTICK", "#", ","}

\* C13: for every input, the result of sanitize_filename holds no control
\* character, no forbidden character (hence no path separator), no run of
\* two or more whitespace characters, and neither starts nor ends with a dot
\* or a space.
C13_SafeSegment ==
    SanitizeCallDone =>
        /\ \A i \in 1..Len(result) : result[i] \notin ClaimedControl \cup ClaimedForbidden
        /\ \A i \in 1..(Len(result) - 1) :
              ~(result[i] \in WhiteSpace /\ result[i + 1] \in WhiteSpace)
        /\ result # <<>> => (result[1] \notin {".", " "} /\ result[Len(result)] \notin {".", " "})

\* an input with a dot at its start, a path separator, and a control
\* character at its end, of which a letter is left
C13_Witness ==
    /\ SanitizeCallDone
    /\ call.name = <<".", "/", "a", "DEL">>
    /\ result = <<"a">>

\* _build_target_directory has returned from the call of the example:
\* template "$studio/$up/Archive", relative mode, studio "Acme", current
\* directory /media/Acme/old
TraversalCallDone ==
    /\ call.fn = "_build_target_directory"
    /\ call.returned
    /\ call.path_template = PtStudioUpArchive
    /\ ~call.is_absolute
    /\ call.scene_info["studio"] = Acme
    /\ call.current_directory = DirMediaAcmeOld

\* C14 as stated: with directory template "$studio/$up/Archive", relative
\* mode, studio "Acme" and current directory /media/Acme/old, the composed
\* target directory is /media/Acme/Archive.
C14_LandsInMediaAcmeArchive ==
    TraversalCallDone =>
        result = <<"/", "m", "e", "d", "i", "a", "/", "A", "c", "m", "e", "/">> \o Archive

\* C14 amended: with directory template "$studio/$up/Archive", relative mode,
\* studio "Acme" and current directory /media/Acme/old, the composed target
\* directory is /media/Acme/old/Archive: the studio segment is appended, the
\* parent marker pops it again, and Archive is appended to the current
\* directory.
C14_LandsInCurrentArchive ==
    TraversalCallDone => result = DirMediaAcmeOld \o Sep \o Archive

\* the call of the example has returned a directory
C14_Witness ==
    /\ TraversalCallDone
    /\ result = DirMediaAcmeOld \o Sep \o Archive

\* the key of the tokens dict whose token is the template t
KeyOfToken(t) == TokenTable[CHOOSE i \in 1..Len(TokenTable) : TokenTable[i][1] = t][2]

\* C20: for every token t of the vocabulary, composing the template that
\* consists of t alone yields the trimmed value of t's own field, also for a
\* token whose name extends the name of another token.
C20_OwnValueOfEveryToken ==
    (/\ call.fn = "makeFilename"
     /\ call.returned
     /\ call.query \in SingleTokens
     /\ call.scene_info \in OwnValueInfos)
        => result = Strip(call.scene_info[KeyOfToken(call.query)])

\* scene_passes_filters has returned
FilterCallDone == call.fn = "scene_passes_filters" /\ call.returned

\* C15: for every scene and every two filter sets F and G, where G
\* configures every predicate of F identically and further predicates, a
\* scene that passes under G passes under F; with no filter key configured
\* every scene passes.
C15_FilterMonotone ==
    FilterCallDone =>
        /\ result = TRUE =>
              \A keys \in SUBSET (DOMAIN cfg.FILTERS) :
                  PassesFilters(call.scene, Restrict(cfg.FILTERS, keys))
        /\ DOMAIN cfg.FILTERS = {} => result = TRUE

\* a scene passes under four configured predicates, and so under each of them
C15_Witness ==
    /\ FilterCallDone
    /\ DOMAIN cfg.FILTERS = {"organized", "min_scene_markers", "studio_names", "performer_genders"}
    /\ cfg.FILTERS["studio_names"] # {}
    /\ result = TRUE

\* q is p, or p with lines appended at its end
IsPrefix(p, q) == Len(p) <= Len(q) /\ Take(q, Len(p)) = p

\* C19: across any sequence of runs, dry-run or live, each audit file (dry-run
\* preview, rename log, failure log, duplicate log) only grows by lines
\* appended at its end; no step removes or rewrites a line written earlier.
C19_AuditAppendOnly ==
    [][/\ IsPrefix(dryrunTxt, dryrunTxt')
       /\ IsPrefix(renameLog, renameLog')
       /\ IsPrefix(failTxt, failTxt')
       /\ IsPrefix(dupTxt, dupTxt')]_vars

\* the service knows a tag of this name
TagKnown(name) == \E i \in 1..Len(remoteTags) : remoteTags[i].name = name

\* the identifier the service has for a tag name it knows
TagIdOf(name) == remoteTags[CHOOSE i \in 1..Len(remoteTags) : remoteTags[i].name = name].id

\* the tag of a (tag, template) pair cannot be resolved
Unresolvable(pair) ==
    pair.tag_names # <<>> /\ \A i \in 1..Len(pair.tag_names) : ~TagKnown(pair.tag_names[i])

\* the scene filters of the count queries of a log, in the order sent
RECURSIVE CountedFilters(_)
CountedFilters(log) ==
    IF log = <<>> THEN <<>>
    ELSE (IF Head(log).query = "count" THEN <<Head(log).scene_filter>> ELSE <<>>)
         \o CountedFilters(Tail(log))

\* the scene filters of the pairs that can be resolved, in pair order
RECURSIVE ResolvableFilters(_)
ResolvableFilters(ps) ==
    IF ps = <<>> THEN <<>>
    ELSE (IF Unresolvable(Head(ps)) THEN <<>>
          ELSE <<{TagIdOf(Head(ps).tag_names[i]) : i \in 1..Len(Head(ps).tag_names)}>>)
         \o ResolvableFilters(Tail(ps))

\* C17: in a run with several (tag, template) pairs, a pair whose tag cannot
\* be resolved contributes no operation and sends no scene query and no move,
\* and run() goes on with the next pair; every other pair's sub-run is
\* executed, in pair order, and its operations are appended to the result
\* list.
C17_ResolutionFailureIsLocal ==
    [][/\ (pc = "run" /\ pairs # <<>>) =>
             IF Unresolvable(Head(pairs))
             THEN /\ queryLog' = queryLog
                  /\ moveLog' = moveLog
                  /\ operations' = <<>>
                  /\ all_operations' = all_operations
                  /\ pairs' = Tail(pairs)
                  /\ pc' = "run"
             ELSE /\ Len(queryLog') > Len(queryLog)
                  /\ queryLog'[Len(queryLog) + 1].query = "count"
       /\ (pc = "scenes" /\ pc' = "run") =>
             /\ all_operations' = all_operations \o operations
             /\ pairs' = Tail(pairs)
       /\ (pc = "run" /\ pc' = "idle") =>
             CountedFilters(queryLog) = ResolvableFilters(TagTemplatePairs(opts))]_vars

\* run() has returned from a call with the tags Z and A: the one count query
\* sent is the one for tag A, and the result list holds operations
C17_Witness ==
    /\ pc = "idle"
    /\ runs = 1
    /\ opts.tags = << <<"Z">>, <<"A">> >>
    /\ CountedFilters(queryLog) = <<{TagIdOf(<<"A">>)}>>
    /\ all_operations # <<>>

\* C18: for every operation emitted, on the normal or on the reduced-template
\* path, new_filename is a non-empty sanitized core followed by exactly the
\* extension of the original filename and by nothing else; a file without
\* extension gets none.
C18_ExtensionPreserved ==
    [][Len(operations') = Len(operations) + 1 =>
        LET op == Last(operations')
            ext == PathExtension(PathBasename(batch[idx].path))
            core == Take(op.new_filename, Len(op.new_filename) - Len(ext))
            scene_info == SceneInfo(batch[idx])
        IN  /\ Len(ext) < Len(op.new_filename)
            /\ op.new_filename = core \o ext
            /\ sanitize_filename(core) = core
            /\ core \in {sanitize_filename(makeFilename(scene_info, t)) :
                            t \in {tpl, ReducedTemplate(scene_info)}}]_vars

\* operations emitted for a file without extension, under a reduced name, and
\* for a file with the extension .x, under the composed name
C18_Witness ==
    /\ IS_WINDOWS
    /\ runs > 0
    /\ opts.template = TplStudioTitle
    /\ \E op \in Emitted :
          /\ op.old_filename = <<"a">>
          /\ op.new_filename = <<"U">>
    /\ \E op \in Emitted :
          /\ op.old_filename = <<"b", ".", "x">>
          /\ op.new_filename = <<"S", " ", "-", " ", "T", ".", "x">>

\* the records of a sequence of pages, in page order and in-page order
RECURSIVE Flatten(_)
Flatten(pages) == IF pages = <<>> THEN <<>> ELSE Head(pages) \o Flatten(Tail(pages))

\* the number of pages of 100 that hold total records
PagesFor(total) == IF total % 100 = 0 THEN total \div 100 ELSE (total \div 100) + 1

\* a fetched record is to be returned: it has a file, its first file's path
\* passes the include and the exclude pattern, and it passes the filters
ToBeReturned(scene) ==
    /\ scene.files # <<>>
    /\ path_like_match(scene.files[1].path, call.path_like)
    /\ ~path_excluded(scene.files[1].path, call.exclude_path_like)
    /\ PassesFilters(scene, cfg.FILTERS)

\* C16: iterate_scenes queries the total once, then fetches the pages 1 to
\* ceil(total/100), each once and in increasing order (none when the total is
\* 0), and returns, in page order and in-page order, exactly the fetched
\* records that have a file, whose first file's path passes the include and
\* exclude patterns and that pass the client-side filters, each with its
\* path set to its first file's path.
C16_PaginationWalk ==
    (call.fn = "iterate_scenes" /\ call.returned) =>
        LET last == PagesFor(Len(catalog))
            due == SelectSeq(Flatten(call.fetched), ToBeReturned)
        IN  /\ Len(queryLog) = last + 1
            /\ queryLog[1].query = "count"
            /\ \A i \in 1..last : queryLog[i + 1].query = "page" /\ queryLog[i + 1].page = i
            /\ Len(call.fetched) = last
            /\ Len(result) = Len(due)
            /\ \A j \in 1..Len(due) : result[j] = [due[j] EXCEPT !.path = due[j].files[1].path]

\* a walk over three pages has returned some of the records and dropped
\* others, under an include pattern, an exclude pattern and a filter
C16_Witness ==
    /\ call.fn = "iterate_scenes"
    /\ call.returned
    /\ Len(catalog) = (MaxWalkPages - 1) * BATCH_SIZE + 1
    /\ Len(queryLog) = MaxWalkPages + 1
    /\ call.path_like # <<>>
    /\ call.exclude_path_like # <<>>
    /\ DOMAIN cfg.FILTERS # {}
    /\ result # <<>>
    /\ Len(result) < Len(catalog)

\* _build_target_directory has returned
DirectoryCallDone == call.fn = "_build_target_directory" /\ call.returned

\* the directory k levels above d, the root when d is less than k levels deep
AncestorAt(d, k) ==
    LET segs == PathSegments(d)
    IN  NormPath(JoinSegments(Take(segs, IF Len(segs) > k THEN Len(segs) - k ELSE 0)))

\* C22: the parent marker never ascends above the root.  In relative mode the
\* result starts at the root whatever the template, and a template of k
\* markers yields the directory k levels above the current one, the root
\* once it is reached.  In absolute mode the result starts at the root, a
\* template of markers alone yields the root, and a marker put in front of a
\* template changes nothing.
C22_NeverAboveRoot ==
    DirectoryCallDone =>
        /\ StartsWith(result, Sep)
        /\ \A k \in 0..MaxUps :
              call.path_template = UpChain(k) =>
                  result = IF call.is_absolute THEN Sep
                           ELSE AncestorAt(call.current_directory, k)
        /\ call.is_absolute =>
              result = build_target_directory(call.current_directory, call.scene_info,
                                              SegmentUp(UpToken) \o Sep \o call.path_template,
                                              TRUE)

\* three markers from a directory one level deep, in relative mode: the
\* result is the root
C22_Witness ==
    /\ DirectoryCallDone
    /\ ~call.is_absolute
    /\ call.current_directory = MediaDir
    /\ call.path_template = UpChain(3)
    /\ result = Sep

\* C26: a token value is data, not path structure.  With the template
\* "$studio", whatever the value, the result is the base directory (the
\* current directory in relative mode, the root in absolute mode) or one
\* sanitized segment below it: a value that holds "/" or "\" adds no further
\* level, and a value ".." does not act as the parent marker.
C26_ValueIsData ==
    (DirectoryCallDone /\ call.path_template = PtStudio) =>
        LET base == IF call.is_absolute THEN <<>> ELSE PathSegments(call.current_directory)
            segs == PathSegments(result)
        IN  /\ IsPrefix(base, segs)
            /\ Len(segs) <= Len(base) + 1
            /\ \A i \in (Len(base) + 1)..Len(segs) : sanitize_filename(segs[i]) = segs[i]

\* C29: in relative mode a named segment followed by the parent marker
\* cancels out: for a segment that is not empty, "." or the marker,
\* "<segment>/$up" yields the current directory, also when the segment
\* sanitizes to the empty string.
C29_SegmentUpCancels ==
    (/\ DirectoryCallDone
     /\ ~call.is_absolute
     /\ \E seg \in CancelSegments : call.path_template = SegmentUp(seg))
        => result = call.current_directory

\* C21: each numeric field resolves to the decimal string of its value
\* whenever it is not null, the value 0 included, and to the empty string
\* only when it is null or missing; each boolean resolves to "true" or
\* "false" when it is not null; no resolved value is the literal "None".
C21_NumbersAndBooleansResolve ==
    (call.fn = "scene_info" /\ call.returned) =>
        /\ \A k \in NumberKeys :
              result[k] = IF k \in DOMAIN call.scene THEN DecimalString(call.scene[k])
                          ELSE <<>>
        /\ \A k \in BoolKeys :
              (k \in DOMAIN call.scene /\ call.scene[k] # "null") =>
                  result[k] = IF call.scene[k] = "true" THEN <<"t", "r", "u", "e">>
                              ELSE <<"f", "a", "l", "s", "e">>
        /\ \A k \in DOMAIN result : ~Contains(result[k], NoneMarker)

\* the identifiers of the tags of a list
TagIds(tags) == {tags[i].id : i \in 1..Len(tags)}

\* the service's tags whose name is exactly name
ExactTags(name) == SelectSeq(remoteTags, LAMBDA t : t.name = name)

\* C23: find_tag_ids_by_names maps a name to the identifier of the tag whose
\* name equals it whenever the service has such a tag; when it has none, the
\* name is mapped to a tag that the MATCHES query returns; a name stays
\* unresolved only when neither query returns a tag.
C23_ExactThenMatches ==
    (call.fn = "find_tag_ids_by_names" /\ call.returned) =>
        \A i \in 1..Len(call.names) :
            LET name == call.names[i]
                loose == FindTags(name, "MATCHES", 5)
            IN  IF ExactTags(name) # <<>>
                THEN name \in DOMAIN result /\ result[name] \in TagIds(ExactTags(name))
                ELSE IF loose # <<>>
                     THEN name \in DOMAIN result /\ result[name] \in TagIds(loose)
                     ELSE name \notin DOMAIN result

\* a path pattern with every "%" removed
WithoutPercent(pattern) == SelectSeq(pattern, LAMBDA c : c # "%")

\* sub occurs in s as a substring
Occurs(sub, s) == \E i \in 0..Len(s) : \E j \in i..Len(s) : SubSeq(s, i + 1, j) = sub

\* C24: path matching is substring containment after removing every "%": a
\* fetched record with a file that passes the filters is returned iff its
\* path holds the include pattern without "%" and does not hold the exclude
\* pattern without "%"; an absent or empty pattern imposes no constraint,
\* and neither does a pattern made of "%" alone.
C24_PathPatterns ==
    (call.fn = "iterate_scenes" /\ call.returned) =>
        LET include == WithoutPercent(call.path_like)
            exclude == WithoutPercent(call.exclude_path_like)
            kept(scene) ==
                /\ scene.files # <<>>
                /\ PassesFilters(scene, cfg.FILTERS)
                /\ include = <<>> \/ Occurs(include, scene.files[1].path)
                /\ exclude = <<>> \/ ~Occurs(exclude, scene.files[1].path)
            due == SelectSeq(Flatten(call.fetched), kept)
        IN  [j \in 1..Len(result) |-> result[j].id] = [j \in 1..Len(due) |-> due[j].id]

\* C25: the recorded plan is the executed plan: for every operation with
\* status success or error that a move call produced, new_path is the
\* destination_folder of the move joined with its destination_basename, in
\* every configuration, a directory template with the long-path reduction
\* included.
C25_RecordedIsExecuted ==
    [][Len(moveLog') = Len(moveLog) + 1 =>
          /\ Len(operations') = Len(operations) + 1
          /\ Last(operations').status \in {"success", "error"}
          /\ Last(operations').new_path =
                PathJoin(Last(moveLog').destination_folder,
                         Last(moveLog').destination_basename)]_vars

\* C27: in live mode a pass that ends Failed (path too long, duplicate
\* target) or Skipped (already correct) leaves the file system as it is, and
\* a directory is created only in a pass that then sends a move.
C27_NoDirectoryWithoutMove ==
    [][(InLoop /\ ~cfg.DRY_RUN) =>
          \A plan \in {CurrentPlan} :
              /\ plan.kind \in {"too_long", "duplicate", "skip"} =>
                    dirs' = dirs /\ files' = files
              /\ dirs' # dirs => Len(moveLog') = Len(moveLog) + 1]_vars

\* C28: the configuration in effect during a run is determined by that run's
\* options alone: it is the configuration a first run() call with these
\* options has, whatever runs came before; a run whose options leave dry_run
\* out is no dry run.
C28_OptionsAloneConfigure ==
    runs > 0 =>
        /\ cfg = Configure(opts, LoadedGlobals)
        /\ "dry_run" \notin DOMAIN opts => ~cfg.DRY_RUN

\* the values of the enum (and UNKNOWN) among the values given for a gender
\* option, read without surrounding blanks and in upper case
Recognized(o, key) ==
    {g \in AllowedGenders :
        \E i \in 1..Len(Get(o, key, <<>>)) : Upper(StripText(o[key][i])) = g}

\* the performer is of one of the genders gs, UNKNOWN standing for a
\* performer of no stated gender
OfGenders(p, gs) == IF p.gender = "" THEN "UNKNOWN" \in gs ELSE Upper(p.gender) \in gs

\* the names of the performers of a scene that the recognized values of
\* performer_genders let through, all of them when no value is recognized
ExpectedNames(scene, o) ==
    LET gs == Recognized(o, "performer_genders")
        kept == SelectSeq(scene.performers, LAMBDA p : gs = {} \/ OfGenders(p, gs))
    IN  JoinSpace([i \in 1..Len(kept) |-> kept[i].name])

\* C30: gender options made only of unrecognized values are dropped as a
\* whole.  When no value given for performer_genders is recognized, the
\* $performers token holds the names of all performers of the scene, and
\* when some are, the names of the performers of the recognized genders;
\* when no value given for filter_performer_genders is recognized, no
\* performer-gender filter is applied, and when some are, exactly the scenes
\* with a performer of a recognized gender are worked on.  Every operation
\* of a run with the template "$performers" carries these names.
C30_UnrecognizedGendersDropped ==
    runs > 0 =>
        LET fs == Recognized(opts, "filter_performer_genders")
            others == DOMAIN cfg.FILTERS \ {"performer_genders"}
        IN  /\ \A k \in SceneKeys :
                  SceneInfo(catalog[k])["performers"] = ExpectedNames(catalog[k], opts)
            /\ fs = {} => "performer_genders" \notin DOMAIN cfg.FILTERS
            /\ fs # {} => /\ "performer_genders" \in DOMAIN cfg.FILTERS
                           /\ cfg.FILTERS["performer_genders"] = fs
            /\ pc = "scenes" =>
                  \A k \in SceneKeys :
                      (\E i \in 1..Len(batch) : batch[i].id = catalog[k].id)
                      <=> /\ PassesFilters(catalog[k], Restrict(cfg.FILTERS, others))
                          /\ fs = {} \/ \E i \in 1..Len(catalog[k].performers) :
                                             OfGenders(catalog[k].performers[i], fs)
            /\ \A op \in Emitted :
                  \E k \in SceneKeys :
                      /\ op.scene_id = catalog[k].id
                      /\ op.new_filename = ExpectedNames(catalog[k], opts) \o <<".", "x">>

\* a run whose performer_genders holds no recognized value and whose
\* filter_performer_genders holds "female" among others: the scene with a
\* woman in its cast is the only one worked on, and its operation carries
\* the names of its whole cast
C30_Witness ==
    /\ pc = "scenes"
    /\ Get(opts, "performer_genders", <<>>) = <<"bogus", "">>
    /\ Get(opts, "filter_performer_genders", <<>>) = <<"bogus", "female">>
    /\ cfg.PERFORMER_GENDERS = {}
    /\ Len(batch) = 1
    /\ \E op \in SeqRange(operations) :
          op.new_filename = <<"P", " ", "Q", " ", "R", ".", "x">>

====
